---------------------------- MODULE Spec2Model ----------------------------
(***************************************************************************)
(* Least-cost transmission routing of reVX:                                *)
(*   reVX/least_cost_xmission/trans_cap_costs.py  TieLineCosts,            *)
(*                                                TransCapCosts            *)
(*   reVX/x_mission_paths/path_finder.py          PathFinder               *)
(*                                                                         *)
(* Numbers.  The program computes in floating point with hop lengths 1 and *)
(* sqrt(2).  The model computes exactly in the field Q(sqrt 2) extended    *)
(* with +inf and nan: a number is a record [a, b, d] standing for          *)
(* (a + b*sqrt(2)) / d, kept in lowest terms with d > 0; d = 0 is +inf     *)
(* (a = 1) or nan (a = 0).  Rounding error is not modelled.                *)
(***************************************************************************)
EXTENDS Integers, Sequences, FiniteSets, TLC

(***************************************************************************)
(* Bounds of the model                                                     *)
(***************************************************************************)
\* the exclusion grid is MaxDim x MaxDim cells
MaxDim == 3

(***************************************************************************)
(* Exact arithmetic in Q(sqrt 2) with inf and nan                          *)
(***************************************************************************)
Abs(x) == IF x < 0 THEN -x ELSE x

RECURSIVE GCD(_, _)
GCD(x, y) == IF y = 0 THEN x ELSE GCD(y, x % y)

Inf == [a |-> 1, b |-> 0, d |-> 0]
NaN == [a |-> 0, b |-> 0, d |-> 0]

IsNaN(x) == x.d = 0 /\ x.a = 0
IsInf(x) == x.d = 0 /\ x.a # 0
IsFinite(x) == x.d > 0

\* lowest terms, positive denominator
Norm(a, b, d) ==
    IF d = 0 THEN (IF a = 0 /\ b = 0 THEN NaN ELSE Inf)
    ELSE LET s == IF d < 0 THEN -1 ELSE 1
             g == GCD(GCD(Abs(a), Abs(b)), Abs(d))
         IN  [a |-> (s * a) \div g, b |-> (s * b) \div g, d |-> (s * d) \div g]

R(n) == [a |-> n, b |-> 0, d |-> 1]
Frac(n, m) == Norm(n, 0, m)
Sqrt2 == [a |-> 0, b |-> 1, d |-> 1]

\* sign of x + y*sqrt(2) for integers x, y
Sgn(x, y) ==
    IF x = 0 /\ y = 0 THEN 0
    ELSE IF x >= 0 /\ y >= 0 THEN 1
    ELSE IF x <= 0 /\ y <= 0 THEN -1
    ELSE IF x > 0 THEN (IF x * x > 2 * y * y THEN 1 ELSE -1)
    ELSE (IF 2 * y * y > x * x THEN 1 ELSE -1)

FSign(x) == Sgn(x.a, x.b)
IsZero(x) == IsFinite(x) /\ x.a = 0 /\ x.b = 0

FAdd(x, y) ==
    IF IsNaN(x) \/ IsNaN(y) THEN NaN
    ELSE IF IsInf(x) \/ IsInf(y) THEN Inf
    ELSE Norm(x.a * y.d + y.a * x.d, x.b * y.d + y.b * x.d, x.d * y.d)

FMul(x, y) ==
    IF IsNaN(x) \/ IsNaN(y) THEN NaN
    ELSE IF IsInf(x) \/ IsInf(y)
         THEN (IF IsZero(x) \/ IsZero(y) THEN NaN ELSE Inf)
    ELSE Norm(x.a * y.a + 2 * x.b * y.b, x.a * y.b + x.b * y.a, x.d * y.d)

\* x / y as numpy float64 divides: x/0 is inf (nan for 0/0), x/inf is 0
FDiv(x, y) ==
    IF IsNaN(x) \/ IsNaN(y) THEN NaN
    ELSE IF IsInf(y) THEN (IF IsInf(x) THEN NaN ELSE R(0))
    ELSE IF IsInf(x) THEN Inf
    ELSE IF IsZero(y) THEN (IF IsZero(x) THEN NaN ELSE Inf)
    ELSE LET n == y.a * y.a - 2 * y.b * y.b
         IN  Norm((x.a * y.a - 2 * x.b * y.b) * y.d,
                  (x.b * y.a - x.a * y.b) * y.d,
                  x.d * n)

\* x < y; every comparison with nan is false
FLess(x, y) ==
    IF IsNaN(x) \/ IsNaN(y) THEN FALSE
    ELSE IF IsInf(x) THEN FALSE
    ELSE IF IsInf(y) THEN TRUE
    ELSE IF x.d = y.d THEN Sgn(x.a - y.a, x.b - y.b) < 0
    ELSE Sgn(x.a * y.d - y.a * x.d, x.b * y.d - y.b * x.d) < 0

FLeq(x, y) == ~IsNaN(x) /\ ~IsNaN(y) /\ ~FLess(y, x)

\* a function made explicit (evaluated once, not on every application)
Explicit(f) == f @@ <<>>

RECURSIVE FSumFrom(_, _)
FSumFrom(s, i) == IF i > Len(s) THEN R(0) ELSE FAdd(s[i], FSumFrom(s, i + 1))

\* np.sum of a 1-d array
FSum(s) == FSumFrom(s, 1)

(***************************************************************************)
(* The exclusion grid (ExclusionLayers.shape) and clipped windows          *)
(***************************************************************************)
shape == <<MaxDim, MaxDim>>

GridCells == (0 .. shape[1] - 1) \X (0 .. shape[2] - 1)

\* the cells of an array of the given (rows, cols) shape
CellsOf(shp) == (0 .. shp[1] - 1) \X (0 .. shp[2] - 1)

\* len(range(start, stop)) of a numpy slice with 0 <= start
SliceLen(s) == IF s.stop > s.start THEN s.stop - s.start ELSE 0

ClipShape(rs, cs) == <<SliceLen(rs), SliceLen(cs)>>

Max2(x, y) == IF x > y THEN x ELSE y
Min2(x, y) == IF x < y THEN x ELSE y

\* TieLineCosts._get_clipping_slices; shp is the shape of the layers of
\* excl_fpath
get_clipping_slices(shp, row, col, radius) ==
    [row_slice |-> [start |-> Max2(row - radius, 0),
                    stop  |-> Min2(row + radius, shp[1])],
     col_slice |-> [start |-> Max2(col - radius, 0),
                    stop  |-> Min2(col + radius, shp[2])]]

\* f[layer, row_slice, col_slice]: a windowed read, indexed from (0, 0)
ReadWindow(layer, rs, cs) ==
    [p \in CellsOf(ClipShape(rs, cs)) |-> layer[<<p[1] + rs.start, p[2] + cs.start>>]]

(***************************************************************************)
(* skimage.graph.MCP_Geometric as the program uses it: built on a 2-d      *)
(* array, fully connected (8 neighbours), find_costs from one start,       *)
(* traceback to an end.  The library is not part of the repository; it is  *)
(* modelled by its documented behaviour: Dijkstra's search where a move    *)
(* costs its length (1 or sqrt 2) times the mean of the two cells' values, *)
(* cells of negative or infinite value are never entered, and traceback    *)
(* raises ValueError for an end whose cumulative cost is inf.  The order   *)
(* in which the heap pops equal keys is left open (TieBreaks).             *)
(***************************************************************************)
TieBreaks == {"low", "high"}

\* row-major position of a cell in an array of shape shp
FlatIndex(shp, p) == p[1] * shp[2] + p[2]

Neighbours(shp, p) ==
    {q \in CellsOf(shp) : q # p /\ Abs(q[1] - p[1]) <= 1 /\ Abs(q[2] - p[2]) <= 1}

\* sqrt(dr^2 + dc^2) between two cells; routes step between 8-neighbours,
\* so the squared distance is 0, 1 or 2 (4, 8, 9 are given for completeness)
HopLen(p, q) ==
    LET d2 == (q[1] - p[1]) * (q[1] - p[1]) + (q[2] - p[2]) * (q[2] - p[2])
    IN  CASE d2 = 0 -> R(0)
          [] d2 = 1 -> R(1)
          [] d2 = 2 -> Sqrt2
          [] d2 = 4 -> R(2)
          [] d2 = 8 -> FMul(R(2), Sqrt2)
          [] d2 = 9 -> R(3)

\* MCP_Geometric._travel_cost: offset_length * 0.5 * (old_cost + new_cost)
travel_cost(costs, p, q) ==
    FMul(HopLen(p, q), FMul(Frac(1, 2), FAdd(costs[p], costs[q])))

\* a cell the search may enter
Passable(v) == ~FLess(v, R(0)) /\ ~IsInf(v) /\ ~IsNaN(v)

\* the solver before find_costs: nothing reached
NoMcp(shp) ==
    [built |-> FALSE,
     cum   |-> [p \in CellsOf(shp) |-> Inf],
     tb    |-> [p \in CellsOf(shp) |-> p]]

RECURSIVE Dijkstra(_, _, _, _, _, _)
Dijkstra(costs, shp, tent, tb, done, tie) ==
    LET open == {p \in CellsOf(shp) \ done : ~IsInf(tent[p])}
    IN  IF open = {}
        THEN [built |-> TRUE,
              cum   |-> Explicit([p \in CellsOf(shp) |-> IF p \in done THEN tent[p] ELSE Inf]),
              tb    |-> tb]
        ELSE LET mins == {p \in open : \A o \in open : ~FLess(tent[o], tent[p])}
                 u == IF tie = "low"
                      THEN CHOOSE p \in mins : \A o \in mins :
                               FlatIndex(shp, p) <= FlatIndex(shp, o)
                      ELSE CHOOSE p \in mins : \A o \in mins :
                               FlatIndex(shp, p) >= FlatIndex(shp, o)
                 upd == {q \in Neighbours(shp, u) \ done :
                            /\ Passable(costs[q])
                            /\ FLess(FAdd(tent[u], travel_cost(costs, u, q)), tent[q])}
             IN  Dijkstra(costs, shp,
                          Explicit([p \in CellsOf(shp) |->
                              IF p \in upd
                              THEN FAdd(tent[u], travel_cost(costs, u, p))
                              ELSE tent[p]]),
                          Explicit([p \in CellsOf(shp) |->
                              IF p \in upd THEN u ELSE tb[p]]),
                          done \cup {u}, tie)

\* MCP_Geometric(costs).find_costs(starts=[start]); a start outside the
\* array raises ValueError and leaves the solver with nothing reached
find_costs(costs, shp, start, tie) ==
    IF start \notin CellsOf(shp)
    THEN [NoMcp(shp) EXCEPT !.built = TRUE]
    ELSE Dijkstra(costs, shp,
                  Explicit([p \in CellsOf(shp) |-> IF p = start THEN R(0) ELSE Inf]),
                  Explicit([p \in CellsOf(shp) |-> p]), {}, tie)

\* traceback raises ValueError
NoPath(m, end) == IsInf(m.cum[end])

RECURSIVE WalkBack(_, _)
WalkBack(m, p) == IF m.tb[p] = p THEN <<p>> ELSE Append(WalkBack(m, m.tb[p]), p)

\* variant: the walk reported from end to start
traceback_reversed(m, end) ==
    LET w == WalkBack(m, end)
    IN  [i \in 1 .. Len(w) |-> w[Len(w) + 1 - i]]

\* MCP.traceback(end): the cells from the start to end
traceback(m, end) == WalkBack(m, end)

(***************************************************************************)
(* TieLineCosts (trans_cap_costs.py)                                       *)
(***************************************************************************)
\* length = np.sum(lengths) * 90 / 1000: cells of 90 m, lengths in km
CellSize == 90
MetresPerKm == 1000

\* variant: the raw cost divided by the barrier value
search_cost_over_barrier(c, barrier, mult) == FMul(FDiv(c, barrier), R(mult))

\* mcp_cost = cost * barrier * barrier_mult, for one cell, multiplied from
\* left to right
search_cost(c, barrier, mult) == FMul(FMul(c, barrier), R(mult))

\* variant: the barriers multiplied into the returned cost array as well
clip_costs_barrier_in_cost(cost_lyr, barrier_lyr, rs, cs, mult) ==
    LET c == ReadWindow(cost_lyr, rs, cs)
        barrier == ReadWindow(barrier_lyr, rs, cs)
        mc == [p \in DOMAIN c |-> search_cost(c[p], barrier[p], mult)]
    IN  [cost |-> mc, mcp_cost |-> mc]

\* TieLineCosts._clip_costs: the raw cost window and the search-cost window
clip_costs(cost_lyr, barrier_lyr, rs, cs, mult) ==
    LET c == ReadWindow(cost_lyr, rs, cs)
        barrier == ReadWindow(barrier_lyr, rs, cs)
    IN  [cost     |-> c,
         mcp_cost |-> [p \in DOMAIN c |-> search_cost(c[p], barrier[p], mult)]]

\* variant: the row of the start cell on the whole grid
row_on_grid(start, rs) == start[1]

\* TieLineCosts.row, .col: the start cell inside the clipped arrays
row(start, rs) == start[1] - rs.start
col(start, cs) == start[2] - cs.start

\* variant: the solver built on the raw cost array, barriers ignored
mcp_on_raw_cost(m, c, mc, start, rs, cs, tie) ==
    IF m.built THEN m
    ELSE find_costs(c, ClipShape(rs, cs), <<row(start, rs), col(start, cs)>>, tie)

\* TieLineCosts.mcp: built on first use on the search-cost array, from the
\* start cell in window coordinates, and kept
mcp_property(m, c, mc, start, rs, cs, tie) ==
    IF m.built THEN m
    ELSE find_costs(mc, ClipShape(rs, cs), <<row(start, rs), col(start, cs)>>, tie)

\* np.sqrt(np.sum(np.diff(indices, axis=0)**2, axis=1))
HopLengths(indices) ==
    Explicit([i \in 1 .. (Len(indices) - 1) |-> HopLen(indices[i], indices[i + 1])])

\* np.repeat(lens, 2)
repeat2(lens) == Explicit([i \in 1 .. (2 * Len(lens)) |-> lens[(i + 1) \div 2]])

\* variant: both zeros appended at the end
pad_tail(lens) == lens \o <<R(0), R(0)>>

\* np.insert(np.append(lens, 0), 0, 0)
pad_ends(lens) == <<R(0)>> \o lens \o <<R(0)>>

\* variant: the repeated hop lengths left whole
not_halved(lens) == lens

\* lens / 2
halve(lens) == Explicit([i \in 1 .. Len(lens) |-> FMul(lens[i], Frac(1, 2))])

\* lens.reshape((int(lens.shape[0] / 2), 2)) then np.sum(lens, axis=1)
pair_sums(lens) ==
    Explicit([k \in 1 .. (Len(lens) \div 2) |-> FAdd(lens[2 * k - 1], lens[2 * k])])

\* the length travelled inside each cell of the path (lines 323-336)
cell_lens(indices) == pair_sums(halve(pad_ends(repeat2(HopLengths(indices)))))

\* np.sum(cell_costs * lens)
path_cost(cost_arr, indices) ==
    LET lens == cell_lens(indices)
    IN  FSum(Explicit([i \in 1 .. Len(indices) |->
                           FMul(cost_arr[indices[i]], lens[i])]))

\* np.sum(lengths) * 90 / 1000
path_length(indices) ==
    FDiv(FMul(FSum(HopLengths(indices)), R(CellSize)), R(MetresPerKm))

NoRet == [kind |-> "none", end_idx |-> <<0, 0>>, indices |-> <<>>,
          length |-> R(0), cost |-> R(0)]

\* what least_cost_path(end_idx) returns or raises, given the solver m
least_cost_path_result(m, cost_arr, shp, end_idx) ==
    IF end_idx[1] < 0 \/ end_idx[2] < 0
       \/ end_idx[1] >= shp[1] \/ end_idx[2] >= shp[2]
    THEN [NoRet EXCEPT !.kind = "ValueError", !.end_idx = end_idx]
    ELSE IF NoPath(m, end_idx)
    THEN [NoRet EXCEPT !.kind = "TransFeatureNotFoundError", !.end_idx = end_idx]
    ELSE LET indices == traceback(m, end_idx)
         IN  [kind |-> "ok", end_idx |-> end_idx, indices |-> indices,
              length |-> path_length(indices),
              cost |-> path_cost(cost_arr, indices)]

(***************************************************************************)
(* TransCapCosts (trans_cap_costs.py)                                      *)
(*                                                                         *)
(* reVX.least_cost_xmission.config (XmissionConfig and the feature         *)
(* categories) is imported by trans_cap_costs.py and is not among the      *)
(* sources; its lookups are modelled as small tables.                      *)
(***************************************************************************)
TRANS_LINE_CAT == "TransLine"
SUBSTATION_CAT == "Substation"
LOAD_CENTER_CAT == "LoadCen"
SINK_CAT == "PCALoadCen"

\* XmissionConfig.capacity_to_kv: the tie-line voltage of a capacity class
capacity_to_kv(cap) == CASE cap = 100 -> 138 [] cap = 200 -> 230

\* the recorded cost of a transmission line below the tie-line voltage,
\* 1e12 $; money is counted in units of 10^6 $ wherever this value occurs
LowVoltLineCost == R(1000000)

\* the rectangle _clip_trans_lines clips the lines to: from the centre of
\* cell (start, start) to the centre of cell (stop, stop) of the slices
InClipRectangle(p, rs, cs) ==
    /\ p[1] >= rs.start /\ p[1] <= rs.stop
    /\ p[2] >= cs.start /\ p[2] <= cs.stop

\* variant: the row and col of the nearest point shifted into the window
clip_trans_line_shifted(line, rs, cs) ==
    [line EXCEPT !.row = line.geometry[1] - rs.start,
                 !.col = line.geometry[2] - cs.start]

\* TransCapCosts._clip_trans_lines for one line that crosses the
\* rectangle: geometry is the cell in which the point of the clipped line
\* nearest to the supply curve point lies; row and col are set to what
\* rowcol gives for it under the transform of the whole grid
clip_trans_line(line, rs, cs) ==
    [line EXCEPT !.row = line.geometry[1], !.col = line.geometry[2]]

\* TransCapCosts._prep_features: row and col shifted into the window, then
\* the transmission lines replaced by what _clip_trans_lines returns
prep_features(feats, rs, cs) ==
    [i \in 1 .. Len(feats) |->
        LET shifted == [feats[i] EXCEPT !.row = @ - rs.start,
                                        !.col = @ - cs.start]
        IN  IF feats[i].category = TRANS_LINE_CAT
            THEN clip_trans_line(shifted, rs, cs)
            ELSE shifted]

\* the minimum-length clamp of compute_tie_line_costs: the locals length
\* and cost after it
clamp(length, cost, min_line_length) ==
    IF FLess(length, min_line_length)
    THEN [length |-> min_line_length,
          cost   |-> FMul(cost, FDiv(min_line_length, length))]
    ELSE [length |-> length, cost |-> cost]

\* one pass of the loop of compute_tie_line_costs over the features from
\* the i-th on; table holds the rows written so far.  least_cost_path is
\* called twice for a feature, the second time on the solver the first
\* call left; the code hands it the table row, whose row and col entries
\* are the end index
RECURSIVE tie_line_loop(_, _, _, _, _, _, _, _)
tie_line_loop(feats, i, table, m, cost_arr, shp, tie_voltage, min_line_length) ==
    IF i > Len(feats)
    THEN [status |-> "returned", error |-> "", at |-> 0, table |-> table]
    ELSE LET feat == feats[i]
             r == least_cost_path_result(m, cost_arr, shp, <<feat.row, feat.col>>)
         IN  IF r.kind # "ok"
             THEN [status |-> "raised", error |-> r.kind, at |-> i, table |-> table]
             ELSE LET raw == IF feat.category = TRANS_LINE_CAT
                                 /\ feat.max_volts < tie_voltage
                             THEN LowVoltLineCost
                             ELSE r.cost
                      \* the scaled cost is computed and not recorded
                      length == clamp(r.length, r.cost, min_line_length).length
                  IN  tie_line_loop(feats, i + 1,
                          [table EXCEPT ![i] = [@ EXCEPT !.raw_line_cost = raw,
                                                         !.dist_km = length]],
                          m, cost_arr, shp, tie_voltage, min_line_length)

\* features.copy() with raw_line_cost and dist_km set to 0
new_table(feats) ==
    [i \in 1 .. Len(feats) |->
        [trans_gid |-> feats[i].trans_gid, category |-> feats[i].category,
         raw_line_cost |-> R(0), dist_km |-> R(0)]]

\* what compute_tie_line_costs(min_line_length) returns or raises
tie_line_costs_result(feats, m, cost_arr, shp, tie_voltage, min_line_length) ==
    tie_line_loop(feats, 1, new_table(feats), m, cost_arr, shp, tie_voltage,
                  min_line_length)

\* XmissionConfig.xformer_cost(feature voltage, tie-line voltage), $ per MW
xformer_cost(volts, tie_voltage) ==
    R((CASE volts = 69 -> 7 [] volts = 138 -> 9 [] volts = 230 -> 11)
      + (IF tie_voltage = 230 THEN 1 ELSE 0))

\* XmissionConfig.sub_upgrade_cost(region, tie-line voltage), $
sub_upgrade_cost(region, tie_voltage) ==
    R(20 * region + (IF tie_voltage = 230 THEN 3 ELSE 0))

\* XmissionConfig.new_sub_cost(region, tie-line voltage), $
new_sub_cost(region, tie_voltage) ==
    R(50 * region + (IF tie_voltage = 230 THEN 5 ELSE 0))

\* XmissionConfig['iso_lookup']['TEPPC'], a region code
TEPPC == 1

\* 3 * 5280 / 3.28084 / 1000 and 10 * 5280 / 3.28084 / 1000, km
ShortCutoffKm == Frac(3 * 5280 * 100, 328084)
MediumCutoffKm == Frac(10 * 5280 * 100, 328084)

\* the new substation cost of a sink, 1e11 $, in units of 10^6 $
SinkSubCost == R(100000)

\* the length_mult column: 1.0, then 1.5 on the rows below the short
\* cutoff, then 1.2 on the rows up to the medium cutoff
length_mult(dist_km) ==
    LET m0 == R(1)
        m1 == IF FLess(dist_km, ShortCutoffKm) THEN Frac(3, 2) ELSE m0
        m2 == IF FLeq(dist_km, MediumCutoffKm) THEN Frac(6, 5) ELSE m1
    IN  m2

\* TransCapCosts._calc_xformer_cost raises RuntimeError
xformer_error(feats, tie_voltage) ==
    \E i \in 1 .. Len(feats) :
        feats[i].category = SUBSTATION_CAT /\ feats[i].max_volts < tie_voltage

\* variant: the exempt region pays for its transformers
calc_xformer_cost_no_exemption(feat, tie_voltage) ==
    IF feat.min_volts <= tie_voltage THEN R(0)
    ELSE xformer_cost(feat.min_volts, tie_voltage)

\* TransCapCosts._calc_xformer_cost, the entry of one feature, $ per MW
calc_xformer_cost(feat, tie_voltage) ==
    LET c0 == xformer_cost(feat.min_volts, tie_voltage)
        c1 == IF feat.category = TRANS_LINE_CAT /\ feat.max_volts < tie_voltage
              THEN R(0) ELSE c0
        c2 == IF feat.min_volts <= tie_voltage THEN R(0) ELSE c1
        c3 == IF feat.region = TEPPC THEN R(0) ELSE c2
    IN  c3

\* _calc_sub_upgrade_cost and _calc_new_sub_cost raise RuntimeError
region_error(feats) == \E i \in 1 .. Len(feats) : feats[i].region = 0

\* TransCapCosts._calc_sub_upgrade_cost, the entry of one feature
calc_sub_upgrade_cost(feat, tie_voltage) ==
    IF feat.category \in {SUBSTATION_CAT, LOAD_CENTER_CAT}
    THEN sub_upgrade_cost(feat.region, tie_voltage) ELSE R(0)

\* TransCapCosts._calc_new_sub_cost, the entry of one feature
calc_new_sub_cost(feat, tie_voltage) ==
    IF feat.category = TRANS_LINE_CAT
    THEN new_sub_cost(feat.region, tie_voltage) ELSE R(0)

\* variant: connection_cost without the new substation cost
connection_row_without_new_sub(rec, feat, tie_voltage, capacity) ==
    LET lm == length_mult(rec.dist_km)
        per_mw == calc_xformer_cost(feat, tie_voltage)
        xf == FMul(per_mw, R(capacity))
        up == calc_sub_upgrade_cost(feat, tie_voltage)
        new == IF feat.category = SINK_CAT THEN SinkSubCost
               ELSE calc_new_sub_cost(feat, tie_voltage)
    IN  [dist_km |-> rec.dist_km, raw_line_cost |-> rec.raw_line_cost,
         length_mult |-> lm,
         tie_line_cost |-> FMul(rec.raw_line_cost, lm),
         xformer_cost_per_mw |-> per_mw, xformer_cost |-> xf,
         sub_upgrade_cost |-> up, new_sub_cost |-> new,
         connection_cost |-> FAdd(xf, up)]

\* the columns compute_connection_costs adds to one row of the table
connection_row(rec, feat, tie_voltage, capacity) ==
    LET lm == length_mult(rec.dist_km)
        per_mw == calc_xformer_cost(feat, tie_voltage)
        xf == FMul(per_mw, R(capacity))
        up == calc_sub_upgrade_cost(feat, tie_voltage)
        new == IF feat.category = SINK_CAT THEN SinkSubCost
               ELSE calc_new_sub_cost(feat, tie_voltage)
    IN  [dist_km |-> rec.dist_km, raw_line_cost |-> rec.raw_line_cost,
         length_mult |-> lm,
         tie_line_cost |-> FMul(rec.raw_line_cost, lm),
         xformer_cost_per_mw |-> per_mw, xformer_cost |-> xf,
         sub_upgrade_cost |-> up, new_sub_cost |-> new,
         connection_cost |-> FAdd(FAdd(xf, up), new)]

\* what compute_connection_costs(features=table) returns or raises; table
\* is <<>> for features=None, the object's own table, which has no dist_km
connection_costs_result(table, feats, tie_voltage, capacity) ==
    IF Len(feats) > 0 /\ table = <<>>
    THEN [status |-> "raised", error |-> "KeyError", table |-> <<>>]
    ELSE IF xformer_error(feats, tie_voltage) \/ region_error(feats)
    THEN [status |-> "raised", error |-> "RuntimeError", table |-> <<>>]
    ELSE [status |-> "returned", error |-> "",
          table |-> [i \in 1 .. Len(feats) |->
                        connection_row(table[i], feats[i], tie_voltage, capacity)]]

\* what compute(min_line_length) returns or raises: the table of
\* compute_tie_line_costs, the columns of compute_connection_costs and
\* trans_cap_cost = tie_line_cost + connection_cost
compute_result(feats, m, cost_arr, shp, tie_voltage, capacity, min_line_length) ==
    LET tl == tie_line_costs_result(feats, m, cost_arr, shp, tie_voltage,
                                    min_line_length)
        cc == connection_costs_result(tl.table, feats, tie_voltage, capacity)
    IN  IF tl.status = "raised"
        THEN [status |-> "raised", error |-> tl.error, table |-> <<>>]
        ELSE IF cc.status = "raised" THEN cc
        ELSE [status |-> "returned", error |-> "",
              table |-> [i \in 1 .. Len(feats) |->
                            [category |-> feats[i].category,
                             trans_cap_cost |->
                                 FAdd(cc.table[i].tie_line_cost,
                                      cc.table[i].connection_cost)]
                            @@ cc.table[i]]]

(***************************************************************************)
(* PathFinder (x_mission_paths/path_finder.py)                             *)
(***************************************************************************)
\* CLIP_RASTER_BUFFER = 0.05, in hundredths
ClipRasterBufferPct == 5

RECURSIVE SeqMax(_, _)
SeqMax(q, i) == IF i = Len(q) THEN q[i] ELSE Max2(q[i], SeqMax(q, i + 1))

RECURSIVE SeqMin(_, _)
SeqMin(q, i) == IF i = Len(q) THEN q[i] ELSE Min2(q[i], SeqMin(q, i + 1))

\* list.sort(key=lambda x: x.dist): stable, ascending
RECURSIVE sort_by_dist(_)
sort_by_dist(q) ==
    IF Len(q) <= 1 THEN q
    ELSE LET rest == sort_by_dist(Tail(q))
             k == Cardinality({i \in 1 .. Len(rest) : rest[i].dist < Head(q).dist})
         IN  SubSeq(rest, 1, k) \o <<Head(q)>> \o SubSeq(rest, k + 1, Len(rest))

\* int((max - min) * CLIP_RASTER_BUFFER)
clip_buffer(lo, hi) == ((hi - lo) * ClipRasterBufferPct) \div 100

\* the bounds of PathFinder._clip_cost_raster for the given rows and
\* columns on arrays of shape shp, and the slices min:max+1 they are cut to
clip_bounds(shp, rows, cols) ==
    LET w_buf == clip_buffer(SeqMin(cols, 1), SeqMax(cols, 1))
        h_buf == clip_buffer(SeqMin(rows, 1), SeqMax(rows, 1))
        min_rows == Max2(SeqMin(rows, 1) - h_buf, 0)
        min_cols == Max2(SeqMin(cols, 1) - w_buf, 0)
        max_rows == Min2(SeqMax(rows, 1) + h_buf, shp[1])
        \* line 264 adds h_buf to the columns
        max_cols == Min2(SeqMax(cols, 1) + h_buf, shp[2])
    IN  [min_rows |-> min_rows, min_cols |-> min_cols,
         max_rows |-> max_rows, max_cols |-> max_cols,
         \* arr[min:max+1] stops at the array's edge
         row_slice |-> [start |-> min_rows, stop |-> Min2(max_rows + 1, shp[1])],
         col_slice |-> [start |-> min_cols, stop |-> Min2(max_cols + 1, shp[2])]]

\* PathFinder._clip_cost_raster: the nearest features sorted by distance,
\* the offsets, and the two rasters cut to the rows and columns of the
\* features, the supply curve point and the start, with a buffer
clip_cost_raster(o) ==
    LET near == sort_by_dist(o.closest)
        rows == [i \in 1 .. Len(near) |-> near[i].row]
                    \o <<o.sc_pt[1], o.start_row>>
        cols == [i \in 1 .. Len(near) |-> near[i].col]
                    \o <<o.sc_pt[2], o.start_col>>
        b == clip_bounds(shape, rows, cols)
    IN  [o EXCEPT !.near_trans = near,
                  !.row_offset = b.min_rows,
                  !.col_offset = b.min_cols,
                  !.clip_shape = ClipShape(b.row_slice, b.col_slice),
                  !.cost_arr_clip = ReadWindow(o.cost_arr, b.row_slice, b.col_slice),
                  !.paths_arr_clip = ReadWindow(o.paths_arr, b.row_slice, b.col_slice)]

\* PathFinder._start
pf_start(o) == <<o.start_row - o.row_offset, o.start_col - o.col_offset>>

\* PathFinder._find_paths
find_paths(o, tie) ==
    [o EXCEPT !.mcp = find_costs(o.paths_arr_clip, o.clip_shape, pf_start(o), tie)]

\* PathFinder._feat_row_col
feat_row_col(o, feat) == <<feat.row - o.row_offset, feat.col - o.col_offset>>

\* PathFinder._path_length raises BlockedTransFeature
Blocked(o, feat) == NoPath(o.mcp, feat_row_col(o, feat))

\* PathFinder._path_length, metres
pf_path_length(o, feat) ==
    FMul(FSum(HopLengths(traceback(o.mcp, feat_row_col(o, feat)))), R(CellSize))

\* PathFinder.calc_path_cost
calc_path_cost(cost_arr, indices) ==
    LET lens == pair_sums(halve(pad_ends(repeat2(HopLengths(indices)))))
    IN  FSum(Explicit([i \in 1 .. Len(indices) |->
                           FMul(cost_arr[indices[i]], lens[i])]))

\* PathFinder._path_cost
pf_path_cost(o, feat) ==
    calc_path_cost(o.cost_arr_clip, traceback(o.mcp, feat_row_col(o, feat)))

\* the row returned when no feature has a path
ErrorCost ==
    [trans_id |-> -1, name |-> "Error", tline_cost |-> R(-1), length |-> R(-1)]

\* the loop of the costs property from the i-th nearest feature on: the
\* rows and the blocked features it adds
RECURSIVE costs_loop(_, _)
costs_loop(o, i) ==
    IF i > Len(o.near_trans) THEN [costs |-> <<>>, blocked |-> <<>>]
    ELSE LET feat == o.near_trans[i]
             rest == costs_loop(o, i + 1)
         IN  IF Blocked(o, feat)
             THEN [rest EXCEPT !.blocked = <<feat>> \o @]
             ELSE [rest EXCEPT !.costs =
                      <<[trans_id |-> feat.id, name |-> feat.name,
                         tline_cost |-> pf_path_cost(o, feat),
                         length |-> pf_path_length(o, feat)]>> \o @]

(***************************************************************************)
(* LeastCostPaths (least_cost_xmission/least_cost_paths.py)                *)
(***************************************************************************)
\* LeastCostPaths._get_clip_slice; feature_indices is the sequence of the
\* (row, col) of the features, shp is self._shape
get_clip_slice(shp, feature_indices) ==
    LET rows == [i \in 1 .. Len(feature_indices) |-> feature_indices[i][1]]
        cols == [i \in 1 .. Len(feature_indices) |-> feature_indices[i][2]]
    IN  [row_slice |-> [start |-> Max2(SeqMin(rows, 1) - 1, 0),
                        stop  |-> Min2(SeqMax(rows, 1) + 1, shp[1])],
         col_slice |-> [start |-> Max2(SeqMin(cols, 1) - 1, 0),
                        stop  |-> Min2(SeqMax(cols, 1) + 1, shp[2])]]

\* LeastCostPaths._check_layers: REQUIRED_LAYRES holds the barrier layer
\* only
check_layers_error(file) == ~file.transmission_barrier

\* variant: a feature below the last row of the grid is kept
map_to_costs_rows_unbounded(shp, points) ==
    LET inside(q) == q[1] >= 0 /\ q[2] >= 0 /\ q[2] < shp[2]
        keep == SelectSeq([i \in 1 .. Len(points) |-> i],
                          LAMBDA i : inside(points[i]))
    IN  [i \in 1 .. Len(keep) |->
            [gid |-> keep[i], row |-> points[keep[i]][1],
             col |-> points[keep[i]][2]]]

\* LeastCostPaths._map_to_costs: points are the (row, col) that
\* rasterio.transform.rowcol gives for the features' centroids; the
\* features outside the grid are dropped, the others get their row and
\* col.  gid is the feature's position in the input
map_to_costs(shp, points) ==
    LET inside(q) == q[1] >= 0 /\ q[1] < shp[1] /\ q[2] >= 0 /\ q[2] < shp[2]
        keep == SelectSeq([i \in 1 .. Len(points) |-> i],
                          LAMBDA i : inside(points[i]))
    IN  [i \in 1 .. Len(keep) |->
            [gid |-> keep[i], row |-> points[keep[i]][1],
             col |-> points[keep[i]][2]]]

\* LeastCostPaths._clip_to_feature(start_feature_id); the index labels
\* of the features are 0, 1, ... and start is a label.  drop(row=...) is
\* read as dropping the row of that label
clip_to_feature(feats, start) ==
    LET others == SelectSeq([i \in 1 .. Len(feats) |-> i],
                            LAMBDA i : i # start + 1)
    IN  [start_idx |-> <<feats[start + 1].row, feats[start + 1].col>>,
         end_indices |-> [k \in 1 .. Len(others) |->
                             <<feats[others[k]].row, feats[others[k]].col>>]]

\* TieLineCosts.run as process_least_cost_paths calls it, for the start
\* and the ends of one feature: the table of one row per end, or the
\* error of the task.  The capacity class is parsed, then the cost layer
\* is read, then the paths are searched; blocked tells whether a path of
\* this start cannot be found.  task names the features the table was
\* computed for
tie_line_costs_run(file, start_idx, end_indices, blocked) ==
    IF ~file.known_class
    THEN [kind |-> "raised", error |-> "unknown capacity class"]
    ELSE IF ~file.cost_layer
    THEN [kind |-> "raised", error |-> "missing layer"]
    ELSE IF blocked
    THEN [kind |-> "raised", error |-> "TransFeatureNotFoundError"]
    ELSE [kind |-> "ok", error |-> "",
          rows |-> [k \in 1 .. Len(end_indices) |->
                       [start_idx |-> start_idx, end_idx |-> end_indices[k]]]]

\* the task of the feature with label start
task_result(file, feats, fails, start) ==
    LET c == clip_to_feature(feats, start)
    IN  tie_line_costs_run(file, c.start_idx, c.end_indices,
                           feats[start + 1].gid \in fails)

\* lcp['start_feature'] = start on every row of a task's table
tag(lcp, start) ==
    [k \in 1 .. Len(lcp.rows) |-> [start_feature |-> start] @@ lcp.rows[k]]

\* pd.concat of the tables collected
RECURSIVE concat(_)
concat(tables) ==
    IF Len(tables) = 0 THEN <<>> ELSE Head(tables) \o concat(Tail(tables))

\* variant: the table of a future is tagged with its place in the order
\* of completion
future_tag_by_order(futures, future, i) == i

\* futures[future]: the label the future was stored under at submission;
\* i is the place of the future in the order of completion
future_tag(futures, future, i) == futures[future].start

\* variant: the serial loop tags with its counter i, which starts at 1
serial_tag_by_counter(start) == start + 1

\* the label the serial loop tags a table with
serial_tag(start) == start

\* the serial branch of process_least_cost_paths from the feature with
\* label start on; tables holds the tagged tables collected so far
RECURSIVE serial_loop(_, _, _, _, _)
serial_loop(file, feats, fails, start, tables) ==
    IF start >= Len(feats)
    THEN [status |-> "returned", error |-> "", executed |-> start,
          tables |-> tables]
    ELSE LET lcp == task_result(file, feats, fails, start)
         IN  IF lcp.kind = "raised"
             THEN [status |-> "raised", error |-> lcp.error,
                   executed |-> start + 1, tables |-> tables]
             ELSE serial_loop(file, feats, fails, start + 1,
                      Append(tables, [task |-> start,
                                      rows |-> tag(lcp, serial_tag(start))]))

\* what process_least_cost_paths returns or raises once the tables are
\* collected: pd.concat raises on an empty list
finish(res) ==
    IF res.status = "raised" THEN [res EXCEPT !.tables = <<>>] @@ [table |-> <<>>]
    ELSE IF Len(res.tables) = 0
    THEN [res EXCEPT !.status = "raised", !.error = "ValueError"]
            @@ [table |-> <<>>]
    ELSE res @@ [table |-> concat([k \in 1 .. Len(res.tables) |->
                                      res.tables[k].rows])]

(***************************************************************************)
(* State                                                                   *)
(***************************************************************************)
VARIABLES
    start_idx,      \* TieLineCosts._start_idx, global (row, col)
    row_slice,      \* TieLineCosts._row_slice
    col_slice,      \* TieLineCosts._col_slice
    cost,           \* TieLineCosts._cost, the clipped raw cost array
    mcp_cost,       \* TieLineCosts._mcp_cost, the clipped search-cost array
    mcp,            \* TieLineCosts._mcp (built = FALSE: None)
    n_find_costs,   \* how often find_costs has run on this object
    ret,            \* the outcome of the latest least_cost_path call
    twin,           \* a second TieLineCosts object, built on the same raw
                    \* cost layer, start and radius with other barriers
    capacity_class_class,  \* TieLineCosts._capacity_class_class, MW
    features,       \* TransCapCosts._features, rows in window coordinates
    tie_line_costs, \* the outcome of the latest compute_tie_line_costs call
    connection_costs,  \* the outcome of the latest compute_connection_costs
    trans_cap_costs,   \* the outcome of the latest compute call
    pf,             \* a PathFinder object, its attributes as fields
    pf_costs,       \* what the latest read of PathFinder.costs gave
    win,            \* a call of a window builder: its arguments and slices
    lcp,            \* a LeastCostPaths object and the files it is built on
    pool,           \* the parallel branch of process_least_cost_paths: the
                    \* place of the main process, the futures and their tasks
    least_cost_paths,  \* the list of tables of the parallel branch
    parallel_ret,   \* the outcome of process_least_cost_paths, max_workers > 1
    serial_ret,     \* the outcome of process_least_cost_paths(max_workers=1)
    clip,           \* calls of TieLineCosts._clip_costs on one pair of
                    \* layers: the layers and what each call returned
    dtp,            \* a DistanceToPorts object and its distance_to_ports
                    \* call: the arguments, the place of the main process,
                    \* the futures, what was seen and run for each port
    out_dir         \* the geotiffs of out_dir: what each file holds

tlcVars == <<start_idx, row_slice, col_slice, cost, mcp_cost, mcp,
             n_find_costs, ret>>

tccVars == <<capacity_class_class, features, tie_line_costs, connection_costs,
             trans_cap_costs>>

pfVars == <<pf, pf_costs>>

winVars == <<win>>

clipVars == <<clip>>

dtpVars == <<dtp, out_dir>>

lcpVars == <<lcp, pool, least_cost_paths, parallel_ret, serial_ret>>

vars == <<tlcVars, twin, tccVars, pfVars, winVars, lcpVars, clipVars, dtpVars>>

(***************************************************************************)
(* Inputs                                                                  *)
(***************************************************************************)
MaxRadius == 2

\* raw cell costs, $ per cell length
LoCost == R(1)
HiCost == R(4)
BarrierMults == {1, 100}

\* raw cost layers: uniform, or one costly cell
CostLayers ==
    {[p \in GridCells |-> IF p \in H THEN HiCost ELSE LoCost] :
        H \in {{}} \cup {{q} : q \in GridCells}}

\* barrier layers: 1 everywhere, or a wall along one row, with or without a
\* gap, of multiplier 2 or of infinite multiplier
BarrierLayers ==
    {[p \in GridCells |-> IF p[1] = w /\ p[2] # gap THEN v ELSE R(1)] :
        w \in -1 .. (shape[1] - 1), gap \in -1 .. (shape[2] - 1), v \in {R(2), Inf}}

\* the local end indices least_cost_path is called with
EndIndices == GridCells \cup {<<-1, 0>>, <<0, shape[2]>>}

\* TieLineCosts.__init__: the layers of the data source are read through
\* the window and not kept; neither are radius and barrier_mult
TieLineCostsInit(cl, bl, s, rad, mult) ==
    LET sl == get_clipping_slices(shape, s[1], s[2], rad)
        cc == clip_costs(cl, bl, sl.row_slice, sl.col_slice, mult)
    IN  /\ start_idx = s
        /\ row_slice = sl.row_slice
        /\ col_slice = sl.col_slice
        /\ cost = cc.cost
        /\ mcp_cost = cc.mcp_cost
        /\ mcp = NoMcp(ClipShape(sl.row_slice, sl.col_slice))
        /\ n_find_costs = 0
        /\ ret = NoRet

\* the (raw cost, barrier) layer pairs of the data source
Layers ==
    {[cost |-> cl, barrier |-> [p \in GridCells |-> R(1)]] : cl \in CostLayers}
    \cup {[cost |-> [p \in GridCells |-> LoCost], barrier |-> bl] :
            bl \in BarrierLayers}

\* no second object
NoTwin == [built |-> FALSE]

\* compute_tie_line_costs not called
NoCall == [status |-> "none"]

\* a plain TieLineCosts object: no feature table
NoFeatures ==
    /\ capacity_class_class = 100
    /\ features = <<>>
    /\ tie_line_costs = NoCall
    /\ connection_costs = NoCall
    /\ trans_cap_costs = NoCall

\* no TieLineCosts object
NoTieLineCosts ==
    /\ start_idx = <<0, 0>>
    /\ row_slice = [start |-> 0, stop |-> 0]
    /\ col_slice = [start |-> 0, stop |-> 0]
    /\ cost = <<>>
    /\ mcp_cost = <<>>
    /\ mcp = NoMcp(<<0, 0>>)
    /\ n_find_costs = 0
    /\ ret = NoRet

\* no PathFinder object
NoPathFinder ==
    /\ pf = [made |-> FALSE]
    /\ pf_costs = [kind |-> "none"]

\* no window builder called on its own
NoWindow == win = [policy |-> "none"]

\* _clip_costs not called on its own
NoClipCosts == clip = [status |-> "none"]

\* no DistanceToPorts object
NoDistanceToPorts == dtp = [pc |-> "none"] /\ out_dir = <<>>

\* no executor
NoPool == [pc |-> "idle", max_workers |-> 0, futures |-> <<>>, yielded |-> {}]

\* no LeastCostPaths object
NoLeastCostPaths ==
    /\ lcp = [status |-> "none"]
    /\ pool = NoPool
    /\ least_cost_paths = <<>>
    /\ parallel_ret = NoCall
    /\ serial_ret = NoCall

Init ==
    /\ \E ly \in Layers, s \in GridCells, rad \in 0 .. MaxRadius,
          mult \in BarrierMults :
           TieLineCostsInit(ly.cost, ly.barrier, s, rad, mult)
    /\ twin = NoTwin
    /\ NoFeatures
    /\ NoPathFinder
    /\ NoWindow
    /\ NoLeastCostPaths
    /\ NoClipCosts
    /\ NoDistanceToPorts

\* TieLineCosts.least_cost_path(end_idx); solved is what the mcp property
\* returns in this state (the kept solver, or a new one after find_costs)
least_cost_path(end_idx, solved) ==
    LET shp == ClipShape(row_slice, col_slice)
        \* lines 300-304 raise before the mcp property is read
        m == IF end_idx \in CellsOf(shp) THEN solved ELSE mcp
    IN  /\ mcp' = m
        /\ n_find_costs' = IF m.built /\ ~mcp.built
                           THEN n_find_costs + 1 ELSE n_find_costs
        /\ ret' = least_cost_path_result(m, cost, shp, end_idx)
        /\ UNCHANGED <<start_idx, row_slice, col_slice, cost, mcp_cost>>

\* the heap order matters only when find_costs runs
Next ==
    /\ \E tie \in IF mcp.built THEN {"low"} ELSE TieBreaks :
         \E solved \in {mcp_property(mcp, cost, mcp_cost, start_idx,
                                     row_slice, col_slice, tie)} :
           \E end_idx \in EndIndices : least_cost_path(end_idx, solved)
    /\ UNCHANGED <<twin, tccVars, pfVars, winVars, lcpVars,
                 clipVars, dtpVars>>

Spec == Init /\ [][Next]_vars

(***************************************************************************)
(* Two TieLineCosts objects on the same raw cost layer, start and radius,  *)
(* whose barrier layer or barrier_mult differ, asked for the same end      *)
(***************************************************************************)
PairBarriers(bl) == {bl, [p \in GridCells |-> R(1)]}

\* TieLineCosts.__init__ of the second object
TwinInit(cl, bl, s, rad, mult) ==
    LET sl == get_clipping_slices(shape, s[1], s[2], rad)
        cc == clip_costs(cl, bl, sl.row_slice, sl.col_slice, mult)
    IN  twin = [built |-> TRUE, cost |-> cc.cost, mcp_cost |-> cc.mcp_cost,
                mcp |-> NoMcp(ClipShape(sl.row_slice, sl.col_slice)),
                ret |-> NoRet]

InitPair ==
    \E ly \in Layers, s \in GridCells, rad \in 1 .. MaxRadius,
       mult \in BarrierMults :
        /\ TieLineCostsInit(ly.cost, ly.barrier, s, rad, mult)
        /\ \E bl2 \in PairBarriers(ly.barrier), mult2 \in BarrierMults :
              /\ <<bl2, mult2>> # <<ly.barrier, mult>>
              /\ TwinInit(ly.cost, bl2, s, rad, mult2)
        /\ NoFeatures
        /\ NoPathFinder
        /\ NoWindow
        /\ NoLeastCostPaths
        /\ NoClipCosts
        /\ NoDistanceToPorts

\* least_cost_path(end_idx) of the second object
twin_least_cost_path(end_idx, solved) ==
    LET shp == ClipShape(row_slice, col_slice)
        m == IF end_idx \in CellsOf(shp) THEN solved ELSE twin.mcp
    IN  twin' = [twin EXCEPT !.mcp = m,
                             !.ret = least_cost_path_result(m, twin.cost, shp,
                                                            end_idx)]

\* TieLineCosts.run, twice: each run builds its object (InitPair) and asks
\* it once for the least cost path, both for the same end
NextPair ==
    /\ ret.kind = "none"
    /\ \E tie \in IF mcp.built THEN {"low"} ELSE TieBreaks,
          tie2 \in IF twin.mcp.built THEN {"low"} ELSE TieBreaks :
         \E solved \in {mcp_property(mcp, cost, mcp_cost, start_idx,
                                     row_slice, col_slice, tie)},
            solved2 \in {mcp_property(twin.mcp, twin.cost, twin.mcp_cost,
                                      start_idx, row_slice, col_slice, tie2)} :
           \E end_idx \in EndIndices :
               /\ least_cost_path(end_idx, solved)
               /\ twin_least_cost_path(end_idx, solved2)
               /\ UNCHANGED <<tccVars, pfVars, winVars, lcpVars,
                 clipVars, dtpVars>>

SpecPair == InitPair /\ [][NextPair]_vars

(***************************************************************************)
(* Two TieLineCosts objects built on the same layers, start, radius and    *)
(* barrier_mult by the same build of the library.  The first is asked      *)
(* for any sequence of ends; the second is new and is asked once, for the  *)
(* end the first was asked for last                                        *)
(***************************************************************************)
\* variant: the heap order changes from one run to the next
heap_order_by_run(lib, run) ==
    IF run = 1 THEN lib ELSE CHOOSE t \in TieBreaks : t # lib

\* the order in which the heap of MCP_Geometric pops equal keys in a run:
\* it is fixed by the build of the library, lib
heap_order(lib, run) == lib

InitTwice ==
    \E ly \in Layers, s \in GridCells, rad \in {MaxRadius},
       mult \in BarrierMults, lib \in TieBreaks :
        /\ TieLineCostsInit(ly.cost, ly.barrier, s, rad, mult)
        /\ twin = [built |-> TRUE, cost |-> cost, mcp_cost |-> mcp_cost,
                   mcp |-> mcp, ret |-> NoRet, tie |-> lib]
        /\ NoFeatures
        /\ NoPathFinder
        /\ NoWindow
        /\ NoLeastCostPaths
        /\ NoClipCosts
        /\ NoDistanceToPorts

\* least_cost_path(end_idx) of the first object
first_run ==
    /\ twin.ret.kind = "none"
    /\ \E solved \in {mcp_property(mcp, cost, mcp_cost, start_idx, row_slice,
                                    col_slice, heap_order(twin.tie, 1))} :
          \E end_idx \in EndIndices : least_cost_path(end_idx, solved)
    /\ UNCHANGED <<twin, tccVars, pfVars, winVars, lcpVars,
                 clipVars, dtpVars>>

\* least_cost_path(end_idx) of the second object
second_run ==
    /\ ret.kind # "none"
    /\ twin.ret.kind = "none"
    /\ \E solved \in {mcp_property(twin.mcp, twin.cost, twin.mcp_cost,
                                    start_idx, row_slice, col_slice,
                                    heap_order(twin.tie, 2))} :
          twin_least_cost_path(ret.end_idx, solved)
    /\ UNCHANGED <<tlcVars, tccVars, pfVars, winVars, lcpVars,
                 clipVars, dtpVars>>

NextTwice == first_run \/ second_run

SpecTwice == InitTwice /\ [][NextTwice]_vars

(***************************************************************************)
(* A TransCapCosts object: one supply curve point and its table of         *)
(* transmission features                                                   *)
(***************************************************************************)
MaxFeatures == 2

\* category and voltage (kV) of the features: a line below the tie-line
\* voltage of either capacity class, a line above it, a substation above it
FeatureKinds ==
    {<<TRANS_LINE_CAT, 69>>, <<TRANS_LINE_CAT, 230>>, <<SUBSTATION_CAT, 230>>}

\* where features lie on the grid (global row, col): two opposite corners
\* and a cell next to the first
FeatureCells == {<<0, 0>>, <<0, 1>>, <<shape[1] - 1, shape[2] - 1>>}

\* geometry: the cell the feature's point lies in; for a line, the cell of
\* its point nearest to the supply curve point
FeatureRows ==
    {[category |-> k[1], max_volts |-> k[2], min_volts |-> k[2], region |-> 1,
      row |-> p[1], col |-> p[2], geometry |-> p] :
        k \in FeatureKinds, p \in FeatureCells}

\* every transmission line of the table crosses the clip rectangle
LinesCrossRectangle(feats, rs, cs) ==
    \A i \in 1 .. Len(feats) :
        feats[i].category = TRANS_LINE_CAT
            => InClipRectangle(feats[i].geometry, rs, cs)

\* tables of up to MaxFeatures features, trans_gid the position in the table
FeatureTables ==
    UNION {{[i \in 1 .. n |-> [trans_gid |-> i] @@ f[i]] :
               f \in [1 .. n -> FeatureRows]} : n \in 0 .. MaxFeatures}

\* minimum line lengths, km: 0.1 and the default 5.7
MinLineLengths == {Frac(1, 10), Frac(57, 10)}

\* where the supply curve point lies
ScPoints == {<<0, 0>>, <<1, 1>>}

\* the layers of the data source: uniform cost and no barrier, one costly
\* cell, a closed wall of infinite barrier along the last row, the same
\* wall with a gap
TCCLayers ==
    {ly \in Layers :
        /\ \A p \in GridCells : p # <<0, 1>> => ly.cost[p] = LoCost
        /\ \A p \in GridCells :
              (p[1] # shape[1] - 1 \/ p[2] = 0) => ly.barrier[p] = R(1)
        /\ \A p \in GridCells : ly.barrier[p] \in {R(1), Inf}
        /\ \A p, q \in GridCells :
              (p[1] = q[1] /\ p[2] > 0 /\ q[2] > 0)
                  => ly.barrier[p] = ly.barrier[q]}

\* TransCapCosts.__init__
InitTCC ==
    /\ \E ly \in TCCLayers, s \in ScPoints, rad \in {MaxRadius - 1, MaxRadius} :
           /\ TieLineCostsInit(ly.cost, ly.barrier, s, rad, 100)
           /\ \E cap \in {100}, feats \in FeatureTables :
                 /\ LinesCrossRectangle(feats, row_slice, col_slice)
                 /\ capacity_class_class = cap
                 /\ features = prep_features(feats, row_slice, col_slice)
    /\ tie_line_costs = NoCall
    /\ connection_costs = NoCall
    /\ trans_cap_costs = NoCall
    /\ twin = NoTwin
    /\ NoPathFinder
    /\ NoWindow
    /\ NoLeastCostPaths
    /\ NoClipCosts
    /\ NoDistanceToPorts

\* TransCapCosts.compute_tie_line_costs(min_line_length)
compute_tie_line_costs(min_line_length, solved) ==
    LET shp == ClipShape(row_slice, col_slice)
        res == tie_line_costs_result(features, solved, cost, shp,
                   capacity_to_kv(capacity_class_class), min_line_length)
        \* the mcp property is read once a first end index is inside the window
        reached == \E i \in 1 .. Len(features) :
                      /\ <<features[i].row, features[i].col>> \in CellsOf(shp)
                      /\ res.status = "raised" => i <= res.at
    IN  /\ tie_line_costs' = [res EXCEPT !.table =
                                 IF res.status = "returned" THEN @ ELSE <<>>]
                                 @@ [min_line_length |-> min_line_length]
        /\ mcp' = IF reached THEN solved ELSE mcp
        /\ n_find_costs' = IF reached /\ ~mcp.built
                           THEN n_find_costs + 1 ELSE n_find_costs
        /\ ret' = ret
        /\ UNCHANGED <<start_idx, row_slice, col_slice, cost, mcp_cost>>
        /\ UNCHANGED <<capacity_class_class, features, connection_costs,
                       trans_cap_costs, twin, pfVars, winVars, lcpVars,
                 clipVars, dtpVars>>

NextTCC ==
    \E tie \in IF mcp.built THEN {"low"} ELSE TieBreaks :
      \E solved \in {mcp_property(mcp, cost, mcp_cost, start_idx,
                                  row_slice, col_slice, tie)} :
        \E min_line_length \in MinLineLengths :
            compute_tie_line_costs(min_line_length, solved)

SpecTCC == InitTCC /\ [][NextTCC]_vars

(***************************************************************************)
(* TransCapCosts objects whose window does not start at the grid's origin  *)
(***************************************************************************)
\* supply curve points: the middle of the grid and its last cell
PrepScPoints == {<<1, 1>>, <<shape[1] - 1, shape[2] - 1>>}

\* where the features lie: the cells of the grid's diagonal
PrepCells == {<<0, 0>>, <<1, 1>>, <<shape[1] - 1, shape[2] - 1>>}

PrepRows ==
    {[category |-> k[1], max_volts |-> k[2], min_volts |-> k[2], region |-> 1,
      row |-> p[1], col |-> p[2], geometry |-> p] :
        k \in FeatureKinds, p \in PrepCells}

PrepTables ==
    UNION {{[i \in 1 .. n |-> [trans_gid |-> i] @@ f[i]] :
               f \in [1 .. n -> PrepRows]} : n \in 1 .. MaxFeatures}

\* TransCapCosts.__init__ over layers without barrier
InitPrep ==
    /\ \E ly \in TCCLayers, s \in PrepScPoints,
          rad \in {MaxRadius - 1, MaxRadius} :
           /\ \A p \in GridCells : ly.barrier[p] = R(1)
           /\ TieLineCostsInit(ly.cost, ly.barrier, s, rad, 100)
           /\ \E cap \in {100}, feats \in PrepTables :
                 /\ LinesCrossRectangle(feats, row_slice, col_slice)
                 /\ capacity_class_class = cap
                 /\ features = prep_features(feats, row_slice, col_slice)
    /\ tie_line_costs = NoCall
    /\ connection_costs = NoCall
    /\ trans_cap_costs = NoCall
    /\ twin = NoTwin
    /\ NoPathFinder
    /\ NoWindow
    /\ NoLeastCostPaths
    /\ NoClipCosts
    /\ NoDistanceToPorts

SpecPrep == InitPrep /\ [][NextTCC]_vars

(***************************************************************************)
(* A TransCapCosts object on a larger grid of uniform raw cost and uniform *)
(* barrier value, its window the whole grid, with one substation           *)
(***************************************************************************)
UniformDim == 5

UniformShape == <<UniformDim, UniformDim>>

\* the barrier value of every cell: none, or the baseline
UniformBarriers == {R(0), R(1)}

\* where the supply curve point lies: a corner, the centre, another corner
UniformScPoints ==
    {<<0, 0>>, <<UniformDim \div 2, UniformDim \div 2>>, <<UniformDim - 1, 0>>}

\* TransCapCosts.__init__ with a radius that takes in the whole grid
InitUniform ==
    /\ \E c \in {LoCost, HiCost}, b \in UniformBarriers, s \in UniformScPoints,
          e \in CellsOf(UniformShape) :
          LET sl == get_clipping_slices(UniformShape, s[1], s[2], UniformDim)
              cc == clip_costs([p \in CellsOf(UniformShape) |-> c],
                               [p \in CellsOf(UniformShape) |-> b],
                               sl.row_slice, sl.col_slice, 100)
          IN  /\ start_idx = s
              /\ row_slice = sl.row_slice
              /\ col_slice = sl.col_slice
              /\ cost = cc.cost
              /\ mcp_cost = cc.mcp_cost
              /\ mcp = NoMcp(ClipShape(sl.row_slice, sl.col_slice))
              /\ n_find_costs = 0
              /\ ret = NoRet
              /\ capacity_class_class = 100
              /\ features = prep_features(
                     <<[trans_gid |-> 1, category |-> SUBSTATION_CAT,
                        max_volts |-> 230, min_volts |-> 230, region |-> 1,
                        row |-> e[1], col |-> e[2]]>>,
                     sl.row_slice, sl.col_slice)
    /\ tie_line_costs = NoCall
    /\ connection_costs = NoCall
    /\ trans_cap_costs = NoCall
    /\ twin = NoTwin
    /\ NoPathFinder
    /\ NoWindow
    /\ NoLeastCostPaths
    /\ NoClipCosts
    /\ NoDistanceToPorts

\* least_cost_path to the substation, or compute_tie_line_costs
NextUniform ==
    \E tie \in IF mcp.built THEN {"low"} ELSE TieBreaks :
      \E solved \in {mcp_property(mcp, cost, mcp_cost, start_idx,
                                  row_slice, col_slice, tie)} :
        \/ /\ least_cost_path(<<features[1].row, features[1].col>>, solved)
           /\ UNCHANGED <<twin, tccVars, pfVars, winVars, lcpVars,
                 clipVars, dtpVars>>
        \/ \E min_line_length \in MinLineLengths :
              compute_tie_line_costs(min_line_length, solved)

SpecUniform == InitUniform /\ [][NextUniform]_vars

(***************************************************************************)
(* TieLineCosts._clip_costs called with several values of barrier_mult on  *)
(* one pair of layers of two cells: a cell with a barrier and a cell       *)
(* without                                                                 *)
(***************************************************************************)
ClipShapeOfTwo == <<1, 2>>

BarrierCell == <<0, 0>>

OpenCell == <<0, 1>>

\* raw costs: none, low, high
ClipRawCosts == {R(0), LoCost, HiCost}

\* barrier values above the baseline 1, finite and infinite
ClipBarrierValues == {Frac(3, 2), R(2), Inf}

ClipMults == {0, 1, 100}

InitClip ==
    /\ \E c1 \in ClipRawCosts, c2 \in ClipRawCosts, b \in ClipBarrierValues :
          clip = [status |-> "new",
                  cost_lyr |-> (BarrierCell :> c1) @@ (OpenCell :> c2),
                  barrier_lyr |-> (BarrierCell :> b) @@ (OpenCell :> R(1)),
                  calls |-> {}]
    /\ NoTieLineCosts
    /\ twin = NoTwin
    /\ NoFeatures
    /\ NoPathFinder
    /\ NoWindow
    /\ NoLeastCostPaths
    /\ NoDistanceToPorts

\* _clip_costs(excl_fpath, cost_layer, row_slice, col_slice, barrier_mult)
\* through slices that take in both cells
call_clip_costs ==
    /\ \E mult \in ClipMults :
          clip' = [clip EXCEPT
                      !.status = "called",
                      !.calls = @ \cup
                          {[barrier_mult |-> mult] @@
                           clip_costs(clip.cost_lyr, clip.barrier_lyr,
                                      [start |-> 0, stop |-> ClipShapeOfTwo[1]],
                                      [start |-> 0, stop |-> ClipShapeOfTwo[2]],
                                      mult)}]
    /\ UNCHANGED <<tlcVars, twin, tccVars, pfVars, winVars, lcpVars, dtpVars>>

NextClip == call_clip_costs

SpecClip == InitClip /\ [][NextClip]_vars

(***************************************************************************)
(* A TransCapCosts object asked for its connection costs                   *)
(***************************************************************************)
\* category, voltage (kV) and region of the features
ConnKinds ==
    {<<TRANS_LINE_CAT, 69>>, <<TRANS_LINE_CAT, 230>>, <<SUBSTATION_CAT, 230>>,
     <<SUBSTATION_CAT, 69>>, <<LOAD_CENTER_CAT, 138>>, <<SINK_CAT, 230>>}

ConnRegions == {0, TEPPC, TEPPC + 1}

\* line lengths, km: short, at the short cutoff, the default minimum,
\* at the medium cutoff, long
ConnDists == {R(1), ShortCutoffKm, Frac(57, 10), MediumCutoffKm, R(20)}

ConnFeatures ==
    {[category |-> k[1], max_volts |-> k[2], min_volts |-> k[2],
      region |-> g, row |-> 0, col |-> 1] : k \in ConnKinds, g \in ConnRegions}

\* the features a table of the model may hold after its first
ConnMoreFeatures == {f \in ConnFeatures : f.region # TEPPC}

ConnFeatureTables ==
    UNION {{<<f>> \o t : f \in ConnFeatures, t \in [1 .. n -> ConnMoreFeatures]} :
           n \in 0 .. (MaxFeatures - 1)}

\* TransCapCosts.__init__ on a grid of uniform cost without barriers
InitConn ==
    /\ TieLineCostsInit([p \in GridCells |-> LoCost], [p \in GridCells |-> R(1)],
                        <<0, 0>>, MaxRadius, 100)
    /\ \E cap \in {100, 200}, t \in ConnFeatureTables :
          /\ capacity_class_class = cap
          /\ features = [i \in 1 .. Len(t) |-> [trans_gid |-> i] @@ t[i]]
    /\ tie_line_costs = NoCall
    /\ connection_costs = NoCall
    /\ trans_cap_costs = NoCall
    /\ twin = NoTwin
    /\ NoPathFinder
    /\ NoWindow
    /\ NoLeastCostPaths
    /\ NoClipCosts
    /\ NoDistanceToPorts

\* a table as compute_tie_line_costs returns it: the first row at
\* distance d, the others at 1 km, lines below the tie-line voltage at
\* their fixed cost
ConnTable(d) ==
    [i \in 1 .. Len(features) |->
        [dist_km |-> IF i = 1 THEN d ELSE R(1),
         raw_line_cost |->
             IF /\ features[i].category = TRANS_LINE_CAT
                /\ features[i].max_volts < capacity_to_kv(capacity_class_class)
             THEN LowVoltLineCost ELSE R(10)]]

\* TransCapCosts.compute_connection_costs(features=table); <<>> stands
\* for features=None
compute_connection_costs(table) ==
    /\ connection_costs' =
          connection_costs_result(table, features,
                                  capacity_to_kv(capacity_class_class),
                                  capacity_class_class)
    /\ UNCHANGED <<tlcVars, twin, capacity_class_class, features,
                   tie_line_costs, trans_cap_costs, pfVars, winVars, lcpVars,
                 clipVars, dtpVars>>

\* TransCapCosts.compute(min_line_length)
compute(min_line_length, solved) ==
    LET shp == ClipShape(row_slice, col_slice)
        res == compute_result(features, solved, cost, shp,
                              capacity_to_kv(capacity_class_class),
                              capacity_class_class, min_line_length)
    IN  /\ trans_cap_costs' = res @@ [min_line_length |-> min_line_length]
        \* every feature of these tables lies inside the window: the mcp
        \* property is read when there is a feature
        /\ mcp' = IF Len(features) > 0 THEN solved ELSE mcp
        /\ n_find_costs' = IF Len(features) > 0 /\ ~mcp.built
                           THEN n_find_costs + 1 ELSE n_find_costs
        /\ UNCHANGED <<start_idx, row_slice, col_slice, cost, mcp_cost, ret>>
        /\ UNCHANGED <<twin, capacity_class_class, features, tie_line_costs,
                       connection_costs, pfVars, winVars, lcpVars,
                 clipVars, dtpVars>>

NextConn ==
    \/ \E table \in {<<>>} \cup {ConnTable(d) : d \in ConnDists} :
          compute_connection_costs(table)
    \/ \E tie \in IF mcp.built THEN {"low"} ELSE TieBreaks :
          \E solved \in {mcp_property(mcp, cost, mcp_cost, start_idx,
                                      row_slice, col_slice, tie)} :
            \E min_line_length \in MinLineLengths :
                compute(min_line_length, solved)

SpecConn == InitConn /\ [][NextConn]_vars

(***************************************************************************)
(* A PathFinder object: one supply curve point and the transmission        *)
(* features its distance calculators report as closest                     *)
(***************************************************************************)
\* how often a blocked feature is appended to _blocked_feats in a run of
\* the model (each read of costs appends again)
MaxBlocked == 4

\* a TransFeature at cell p, at distance d
TransFeat(n, p, d) ==
    [id |-> n, name |-> "sub", row |-> p[1], col |-> p[2], dist |-> d]

\* subs + tls + lcs + sinks as the distance calculators return them
ClosestLists ==
    UNION {{[i \in 1 .. n |-> TransFeat(i, c[i], d[i])] :
               c \in [1 .. n -> FeatureCells], d \in [1 .. n -> 1 .. 2]} :
           n \in 1 .. MaxFeatures}

\* the line costs raster and the raster with the barriers multiplied in
PFRasters ==
    {[cost_arr |-> ly.cost,
      paths_arr |-> [p \in GridCells |-> FMul(ly.cost[p], ly.barrier[p])]] :
        ly \in Layers}

\* PathFinder.__init__
InitPF ==
    /\ \E ra \in PFRasters, sc \in ScPoints, cl \in ClosestLists :
           pf = [made |-> TRUE, sc_pt |-> sc,
                 cost_arr |-> ra.cost_arr, paths_arr |-> ra.paths_arr,
                 closest |-> cl, near_trans |-> <<>>,
                 row_offset |-> 0, col_offset |-> 0, clip_shape |-> <<0, 0>>,
                 cost_arr_clip |-> <<>>, paths_arr_clip |-> <<>>,
                 mcp |-> NoMcp(<<0, 0>>),
                 fully_excluded |-> FALSE,
                 start_row |-> sc[1], start_col |-> sc[2],
                 blocked_feats |-> <<>>]
    /\ pf_costs = [kind |-> "none"]
    /\ NoTieLineCosts
    /\ twin = NoTwin
    /\ NoFeatures
    /\ NoWindow
    /\ NoLeastCostPaths
    /\ NoClipCosts
    /\ NoDistanceToPorts

\* PathFinder.run, after the constructor: _clip_cost_raster, _find_paths
pf_run ==
    /\ ~pf.mcp.built
    /\ \E tie \in TieBreaks :
          pf' = IF pf.fully_excluded THEN clip_cost_raster(pf)
                ELSE find_paths(clip_cost_raster(pf), tie)
    /\ UNCHANGED <<pf_costs, tlcVars, twin, tccVars, winVars, lcpVars,
                 clipVars, dtpVars>>

\* a read of the PathFinder.costs property
costs ==
    /\ Len(pf.blocked_feats) < MaxBlocked
    /\ IF pf.fully_excluded
       THEN /\ pf_costs' = [kind |-> "ok",
                            rows |-> <<[ErrorCost EXCEPT
                                           !.name = "Fully Excluded"]>>]
            /\ pf' = pf
       ELSE IF ~pf.mcp.built
       THEN /\ pf_costs' = [kind |-> "AssertionError"]
            /\ pf' = pf
       ELSE \E res \in {costs_loop(pf, 1)} :
              /\ pf_costs' = [kind |-> "ok",
                              rows |-> IF Len(res.costs) = 0
                                       THEN <<ErrorCost>> ELSE res.costs]
              /\ pf' = [pf EXCEPT !.blocked_feats = @ \o res.blocked]
    /\ UNCHANGED <<tlcVars, twin, tccVars, winVars, lcpVars,
                 clipVars, dtpVars>>

NextPF == pf_run \/ costs

SpecPF == InitPF /\ [][NextPF]_vars

(***************************************************************************)
(* Properties of the solver and of the route metrics (TieLineCosts)        *)
(***************************************************************************)
\* the start cell in window coordinates
LocalSource == <<start_idx[1] - row_slice.start, start_idx[2] - col_slice.start>>

WindowShape == ClipShape(row_slice, col_slice)

Adjacent8(p, q) ==
    p # q /\ Abs(p[1] - q[1]) <= 1 /\ Abs(p[2] - q[2]) <= 1

\* hop distance times the average of the two cells' values
HopWeight(grid, p, q) ==
    FMul(IF p[1] # q[1] /\ p[2] # q[2] THEN Sqrt2 ELSE R(1),
         FDiv(FAdd(grid[p], grid[q]), R(2)))

FMin(x, y) == IF FLess(y, x) THEN y ELSE x

RECURSIVE FMinOver(_, _)
FMinOver(f, S) ==
    IF S = {} THEN Inf
    ELSE LET x == CHOOSE y \in S : TRUE
         IN  FMin(f[x], FMinOver(f, S \ {x}))

\* one more hop allowed: every cell takes the best of what it had and of
\* what its neighbours had plus the hop from them
Relax(grid, shp, prev) ==
    Explicit([q \in CellsOf(shp) |->
        LET via == Explicit([p \in {n \in CellsOf(shp) : Adjacent8(n, q)} |->
                       FAdd(prev[p], HopWeight(grid, p, q))])
        IN  FMin(prev[q], FMinOver(via, DOMAIN via))])

\* the cheapest path from the source to every cell, over paths of any
\* number of hops: relaxed until nothing improves
RECURSIVE MinPathCost(_, _, _)
MinPathCost(grid, shp, prev) ==
    \* the relaxed costs, computed once
    CHOOSE r \in {IF nxt = prev THEN prev ELSE MinPathCost(grid, shp, nxt) :
                     nxt \in {Relax(grid, shp, prev)}} : TRUE

MinCost ==
    MinPathCost(mcp_cost, WindowShape,
                Explicit([p \in CellsOf(WindowShape) |->
                              IF p = LocalSource THEN R(0) ELSE Inf]))

\* C1: once the solver has run, the cumulative cost of every cell of the
\* window is the minimum over the 8-connected paths from the source to it
\* of the summed hop weights on the search-cost array (inf: no such path)
C1_CumulativeCostIsMinimum ==
    mcp.built => mcp.cum = MinCost

\* the solver has run on a window where barriers make the cheapest path
\* differ from the straight one, and a cell is out of reach
C1_Witness ==
    /\ mcp.built
    /\ \E p \in CellsOf(WindowShape) : IsInf(mcp.cum[p])
    /\ \E p \in CellsOf(WindowShape) : IsFinite(mcp.cum[p]) /\ mcp.cum[p].b # 0
    /\ \E p \in CellsOf(WindowShape) : mcp_cost[p] # cost[p]

RouteWeight(grid, indices) ==
    FSum(Explicit([i \in 1 .. (Len(indices) - 1) |->
                       HopWeight(grid, indices[i], indices[i + 1])]))

\* C2: the route returned for a reachable destination starts at the source
\* (window coordinates), ends at the destination, steps between distinct
\* 8-adjacent cells of the window, and its summed hop weight is the
\* destination's cumulative cost
C2_RouteIsWellFormed ==
    ret.kind = "ok" =>
        LET r == ret.indices
        IN  /\ Len(r) >= 1
            /\ r[1] = LocalSource
            /\ r[Len(r)] = ret.end_idx
            /\ \A i \in 1 .. Len(r) : r[i] \in CellsOf(WindowShape)
            /\ \A i \in 1 .. (Len(r) - 1) : Adjacent8(r[i], r[i + 1])
            /\ RouteWeight(mcp_cost, r) = mcp.cum[ret.end_idx]

\* a route of three cells or more in a window that does not begin at the
\* grid's origin
C2_Witness ==
    /\ ret.kind = "ok"
    /\ Len(ret.indices) >= 3
    /\ row_slice.start > 0
    /\ col_slice.start > 0

\* the length credited to the i-th cell of a route: half of the hop that
\* enters it plus half of the hop that leaves it
Credit(r, i) ==
    FAdd(IF i > 1 THEN FDiv(HopLen(r[i - 1], r[i]), R(2)) ELSE R(0),
         IF i < Len(r) THEN FDiv(HopLen(r[i], r[i + 1]), R(2)) ELSE R(0))

\* C3: for a route of two cells or more the returned cost is the sum over
\* its cells of the raw cost of the cell times the length credited to it
C3_CostIsCreditWeightedRawCost ==
    (ret.kind = "ok" /\ Len(ret.indices) >= 2) =>
        ret.cost = FSum(Explicit([i \in 1 .. Len(ret.indices) |->
                            FMul(cost[ret.indices[i]], Credit(ret.indices, i))]))

\* a route with an interior cell, over cells of different raw cost
C3_Witness ==
    /\ ret.kind = "ok"
    /\ Len(ret.indices) >= 3
    /\ \E i, j \in 1 .. Len(ret.indices) :
           cost[ret.indices[i]] # cost[ret.indices[j]]

\* C4: a route of n cells gets n length credits whose sum is the sum of the
\* n - 1 hop lengths behind the returned length
C4_LengthConservation ==
    ret.kind = "ok" =>
        LET lens == cell_lens(ret.indices)
            hops == FSum(HopLengths(ret.indices))
        IN  /\ Len(lens) = Len(ret.indices)
            /\ FSum(lens) = hops
            /\ ret.length = FDiv(FMul(hops, R(CellSize)), R(MetresPerKm))

\* a route of one cell (no hop) has been returned, and so has a route
\* with a diagonal hop
C4_WitnessSingleCell == ret.kind = "ok" /\ Len(ret.indices) = 1

C4_Witness ==
    /\ ret.kind = "ok"
    /\ Len(ret.indices) >= 3
    /\ ret.length.b # 0

\* C5: two runs on the same raw cost layer, start and end whose barriers
\* differ and that chose the same route return the same length and the
\* same cost
C5_BarriersOnlySteer ==
    (/\ twin.built
     /\ ret.kind = "ok"
     /\ twin.ret.kind = "ok"
     /\ ret.end_idx = twin.ret.end_idx
     /\ ret.indices = twin.ret.indices)
        => (ret.length = twin.ret.length /\ ret.cost = twin.ret.cost)

\* the two runs chose the same route of two cells or more over cells whose
\* search costs differ between the runs
C5_Witness ==
    /\ twin.built
    /\ ret.kind = "ok"
    /\ twin.ret.kind = "ok"
    /\ ret.indices = twin.ret.indices
    /\ Len(ret.indices) >= 2
    /\ cost = twin.cost
    /\ \E i \in 1 .. Len(ret.indices) :
           mcp_cost[ret.indices[i]] # twin.mcp_cost[ret.indices[i]]

(***************************************************************************)
(* The three window builders, each called on its own on a larger grid:     *)
(* TieLineCosts._get_clipping_slices (a radius around the source),         *)
(* PathFinder._clip_cost_raster (the box of the source and the features,   *)
(* with a buffer), LeastCostPaths._get_clip_slice (the box of the features)*)
(***************************************************************************)
MaxWinDim == 48

WinShape == <<MaxWinDim, MaxWinDim>>

\* rows and columns of the cells: next to the upper-left edge, inside, and
\* next to the lower-right edge.  No two of them are a multiple of 20
\* apart, where (max - min) * 0.05 is a whole number in exact arithmetic
\* and need not be one in floating point
WinCoords == {1, 10, MaxWinDim - 13, MaxWinDim - 1}

WinCells == WinCoords \X WinCoords

WinRadii == {0, 1, 12}

\* the arguments of the calls: the shape of the grid, the cell of the
\* source, the cells of the features, the radius
InitWin ==
    /\ \E src \in WinCells, radius \in WinRadii, n \in 1 .. MaxFeatures :
          \E cands \in [1 .. n -> WinCells] :
              win = [policy |-> "none", shape |-> WinShape, src |-> src,
                     cands |-> cands, radius |-> radius]
    /\ NoTieLineCosts
    /\ twin = NoTwin
    /\ NoFeatures
    /\ NoPathFinder
    /\ NoLeastCostPaths
    /\ NoClipCosts
    /\ NoDistanceToPorts

\* the arguments of a call, without the outcome of an earlier one
WinArgs ==
    [policy |-> "none", shape |-> win.shape, src |-> win.src,
     cands |-> win.cands, radius |-> win.radius]

\* TieLineCosts._get_clipping_slices(excl_fpath, row, col, radius)
call_get_clipping_slices ==
    /\ win' = [policy |-> "radius", status |-> "returned"]
                  @@ get_clipping_slices(win.shape, win.src[1], win.src[2],
                                         win.radius)
                  @@ WinArgs
    /\ UNCHANGED <<tlcVars, twin, tccVars, pfVars, lcpVars, clipVars, dtpVars>>

\* the bounds of PathFinder._clip_cost_raster: the features, the supply
\* curve point and the start, which is the supply curve point
call_clip_cost_raster ==
    /\ win' = [policy |-> "bbox", status |-> "returned"]
                  @@ clip_bounds(win.shape,
                         [i \in 1 .. Len(win.cands) |-> win.cands[i][1]]
                             \o <<win.src[1], win.src[1]>>,
                         [i \in 1 .. Len(win.cands) |-> win.cands[i][2]]
                             \o <<win.src[2], win.src[2]>>)
                  @@ WinArgs
    /\ UNCHANGED <<tlcVars, twin, tccVars, pfVars, lcpVars, clipVars, dtpVars>>

\* LeastCostPaths._get_clip_slice(self.features[['row', 'col']].values):
\* the start feature and the others
call_get_clip_slice ==
    /\ win' = [policy |-> "features", status |-> "returned"]
                  @@ get_clip_slice(win.shape, <<win.src>> \o win.cands)
                  @@ WinArgs
    /\ UNCHANGED <<tlcVars, twin, tccVars, pfVars, lcpVars, clipVars, dtpVars>>

NextWin ==
    \/ call_get_clipping_slices
    \/ call_clip_cost_raster
    \/ call_get_clip_slice

SpecWin == InitWin /\ [][NextWin]_vars

(***************************************************************************)
(* A LeastCostPaths object: built on a file of layers and a file of        *)
(* features, then asked for the paths between all features, in serial and  *)
(* on a pool of workers                                                    *)
(***************************************************************************)
MaxTasks == 3

MaxWorkers == 2

\* where rowcol puts a feature: two cells of the grid, a row below the
\* grid, a column left of it
LcpPoints == {<<0, 0>>, <<shape[1] - 1, 1>>, <<shape[1], 1>>, <<1, -1>>}

\* the file of layers: whether it holds the barrier layer and the cost
\* layer of the capacity class asked for, and whether the configuration
\* knows that class
LcpFiles ==
    [transmission_barrier : BOOLEAN, cost_layer : BOOLEAN, known_class : BOOLEAN]

GoodFile(file) ==
    file.transmission_barrier /\ file.cost_layer /\ file.known_class

\* the arguments of LeastCostPaths(cost_fpath, features_fpath); fails
\* holds the features from which a path to another feature cannot be found,
\* hangs the features whose task never ends
InitLCP ==
    /\ \E file \in LcpFiles, n \in 1 .. MaxTasks :
          \E points \in [1 .. n -> LcpPoints],
             fails \in {{}} \cup {{i} : i \in 1 .. n} :
              /\ (fails # {} => GoodFile(file))
              /\ lcp = [status |-> "new", error |-> "", file |-> file,
                        points |-> points, fails |-> fails, hangs |-> {},
                        features |-> <<>>, shape |-> shape]
    /\ pool = NoPool
    /\ least_cost_paths = <<>>
    /\ parallel_ret = NoCall
    /\ serial_ret = NoCall
    /\ NoTieLineCosts
    /\ twin = NoTwin
    /\ NoFeatures
    /\ NoPathFinder
    /\ NoWindow
    /\ NoClipCosts
    /\ NoDistanceToPorts

\* LeastCostPaths.__init__: _check_layers, then _map_to_costs
lcp_init ==
    /\ lcp.status = "new"
    /\ lcp' = IF check_layers_error(lcp.file)
              THEN [lcp EXCEPT !.status = "raised", !.error = "RuntimeError"]
              ELSE [lcp EXCEPT !.status = "made",
                               !.features = map_to_costs(lcp.shape, lcp.points)]
    /\ UNCHANGED <<pool, least_cost_paths, parallel_ret, serial_ret>>
    /\ UNCHANGED <<tlcVars, twin, tccVars, pfVars, winVars,
                 clipVars, dtpVars>>

\* process_least_cost_paths(capacity_class, max_workers=1): the whole call
process_least_cost_paths_serial ==
    /\ lcp.status = "made"
    /\ pool.pc \in {"idle", "done"}
    /\ serial_ret = NoCall
    /\ serial_ret' = finish(serial_loop(lcp.file, lcp.features, lcp.fails, 0, <<>>))
    /\ UNCHANGED <<lcp, pool, least_cost_paths, parallel_ret>>
    /\ UNCHANGED <<tlcVars, twin, tccVars, pfVars, winVars,
                 clipVars, dtpVars>>

\* process_least_cost_paths(capacity_class, max_workers > 1) up to the
\* pool: _get_clip_slice raises when there is no feature
enter_pool ==
    /\ lcp.status = "made"
    /\ pool.pc = "idle"
    /\ \E max_workers \in 2 .. MaxWorkers :
          IF Len(lcp.features) = 0
          THEN /\ pool' = [pool EXCEPT !.pc = "done"]
               /\ parallel_ret' = [status |-> "raised", error |-> "ValueError",
                                   tables |-> <<>>, table |-> <<>>]
          ELSE /\ pool' = [pool EXCEPT !.pc = "submit",
                                       !.max_workers = max_workers]
               /\ parallel_ret' = parallel_ret
    /\ UNCHANGED <<lcp, least_cost_paths, serial_ret>>
    /\ UNCHANGED <<tlcVars, twin, tccVars, pfVars, winVars,
                 clipVars, dtpVars>>

\* one turn of the loop of exe.submit: the future of the next feature is
\* stored under its label
submit ==
    /\ pool.pc = "submit"
    /\ LET start == Len(pool.futures)
           futures == Append(pool.futures, [start |-> start, state |-> "queued",
                                            result |-> [kind |-> "none"]])
       IN  pool' = [pool EXCEPT !.futures = futures,
                                !.pc = IF Len(futures) = Len(lcp.features)
                                       THEN "collect" ELSE "submit"]
    /\ UNCHANGED <<lcp, least_cost_paths, parallel_ret, serial_ret>>
    /\ UNCHANGED <<tlcVars, twin, tccVars, pfVars, winVars,
                 clipVars, dtpVars>>

\* variant: the pool runs one task at a time whatever max_workers is
free_worker_of_one(futures, max_workers) ==
    \A g \in 1 .. Len(futures) : futures[g].state # "running"

\* SpawnProcessPool(max_workers=max_workers): a worker is free while
\* fewer than max_workers tasks are running
free_worker(futures, max_workers) ==
    Cardinality({g \in 1 .. Len(futures) : futures[g].state = "running"})
        < max_workers

\* the task of future f is one that never ends
Hangs(f) == lcp.features[pool.futures[f].start + 1].gid \in lcp.hangs

\* a free worker takes the oldest future of the queue
task_start(f) ==
    /\ pool.futures[f].state = "queued"
    /\ \A g \in 1 .. (f - 1) : pool.futures[g].state # "queued"
    /\ free_worker(pool.futures, pool.max_workers)
    /\ pool' = [pool EXCEPT !.futures[f].state = "running"]
    /\ UNCHANGED <<lcp, least_cost_paths, parallel_ret, serial_ret>>
    /\ UNCHANGED <<tlcVars, twin, tccVars, pfVars, winVars,
                 clipVars, dtpVars>>

\* a worker ends its task: the future holds the table or the error
task_done(f) ==
    /\ pool.futures[f].state = "running"
    /\ ~Hangs(f)
    /\ pool' = [pool EXCEPT
                   !.futures[f].state = "done",
                   !.futures[f].result =
                       task_result(lcp.file, lcp.features, lcp.fails,
                                   pool.futures[f].start)]
    /\ UNCHANGED <<lcp, least_cost_paths, parallel_ret, serial_ret>>
    /\ UNCHANGED <<tlcVars, twin, tccVars, pfVars, winVars,
                 clipVars, dtpVars>>

\* one turn of the loop over as_completed(futures): the next future that
\* is done; future.result() raises the error of its task, which ends the
\* call
collect(f) ==
    /\ pool.pc = "collect"
    /\ pool.futures[f].state = "done"
    /\ f \notin pool.yielded
    /\ LET lcp_table == pool.futures[f].result
           i == Cardinality(pool.yielded)
       IN  IF lcp_table.kind = "raised"
           THEN /\ parallel_ret' = [status |-> "raised",
                                    error |-> lcp_table.error,
                                    tables |-> <<>>, table |-> <<>>]
                /\ pool' = [pool EXCEPT !.pc = "done", !.yielded = @ \cup {f}]
                /\ least_cost_paths' = least_cost_paths
           ELSE /\ least_cost_paths' =
                      Append(least_cost_paths,
                             [task |-> pool.futures[f].start,
                              rows |-> tag(lcp_table,
                                           future_tag(pool.futures, f, i))])
                /\ pool' = [pool EXCEPT !.yielded = @ \cup {f}]
                /\ parallel_ret' = parallel_ret
    /\ UNCHANGED <<lcp, serial_ret>>
    /\ UNCHANGED <<tlcVars, twin, tccVars, pfVars, winVars,
                 clipVars, dtpVars>>

\* every future was collected: pd.concat and return
concat_and_return ==
    /\ pool.pc = "collect"
    /\ pool.yielded = 1 .. Len(pool.futures)
    /\ parallel_ret' = finish([status |-> "returned", error |-> "",
                               executed |-> Len(pool.futures),
                               tables |-> least_cost_paths])
    /\ pool' = [pool EXCEPT !.pc = "done"]
    /\ UNCHANGED <<lcp, least_cost_paths, serial_ret>>
    /\ UNCHANGED <<tlcVars, twin, tccVars, pfVars, winVars,
                 clipVars, dtpVars>>

NextLCP ==
    \/ lcp_init
    \/ process_least_cost_paths_serial
    \/ enter_pool
    \/ submit
    \/ \E f \in 1 .. Len(pool.futures) : task_start(f)
    \/ \E f \in 1 .. Len(pool.futures) : task_done(f)
    \/ \E f \in 1 .. Len(pool.futures) : collect(f)
    \/ concat_and_return

SpecLCP == InitLCP /\ [][NextLCP]_vars

(***************************************************************************)
(* The parallel branch of process_least_cost_paths when the task of one    *)
(* feature never ends.  The operating system lets every worker that has a  *)
(* task run, and the main process is never held but by as_completed and    *)
(* by the exit of the pool, so every step that stays possible is taken     *)
(***************************************************************************)
InitHang ==
    /\ \E file \in {g \in LcpFiles : GoodFile(g)}, n \in 2 .. MaxTasks :
          \E points \in [1 .. n -> LcpPoints],
             hangs \in {{}} \cup {{i} : i \in 1 .. n} :
              lcp = [status |-> "new", error |-> "", file |-> file,
                     points |-> points, fails |-> {}, hangs |-> hangs,
                     features |-> <<>>, shape |-> shape]
    /\ pool = NoPool
    /\ least_cost_paths = <<>>
    /\ parallel_ret = NoCall
    /\ serial_ret = NoCall
    /\ NoTieLineCosts
    /\ twin = NoTwin
    /\ NoFeatures
    /\ NoPathFinder
    /\ NoWindow
    /\ NoClipCosts
    /\ NoDistanceToPorts

NextHang ==
    \/ lcp_init
    \/ enter_pool
    \/ submit
    \/ \E f \in 1 .. Len(pool.futures) : task_start(f)
    \/ \E f \in 1 .. Len(pool.futures) : task_done(f)
    \/ \E f \in 1 .. Len(pool.futures) : collect(f)
    \/ concat_and_return

FairHang ==
    /\ WF_vars(lcp_init)
    /\ WF_vars(enter_pool)
    /\ WF_vars(submit)
    /\ WF_vars(concat_and_return)
    /\ \A f \in 1 .. (MaxTasks + 1) :
          /\ WF_vars(f \in DOMAIN pool.futures /\ task_start(f))
          /\ WF_vars(f \in DOMAIN pool.futures /\ task_done(f))
          /\ WF_vars(f \in DOMAIN pool.futures /\ collect(f))

SpecHang == InitHang /\ [][NextHang]_vars /\ FairHang

(***************************************************************************)
(* DistanceToPorts.distance_to_ports: one geotiff per port, in serial or   *)
(* on a pool of workers                                                    *)
(***************************************************************************)
MaxPorts == 2

\* the names of the ports, character by character: two names that differ
\* in a space and an underscore only, and a third
PortNames == {<<"a", " ", "b">>, <<"a", "_", "b">>, <<"c">>}

\* the ports table of the object: _create_port_names raises unless the
\* names are unique
PortTables ==
    UNION {{t \in [1 .. n -> PortNames] :
               \A i, j \in 1 .. n : t[i] = t[j] => i = j} : n \in 1 .. MaxPorts}

\* port['name'].replace(' ', '_')
replace_spaces(name) ==
    [k \in DOMAIN name |-> IF name[k] = " " THEN "_" ELSE name[k]]

\* the path of a port's geotiff in out_dir
geotiff_path(name) == replace_spaces(name) \o <<".tif">>

Geotiffs == {geotiff_path(name) : name \in PortNames}

\* a path of out_dir without file, and with a file written before the call
Absent == [exists |-> FALSE, from |-> 0]

Old == [exists |-> TRUE, from |-> 0]

\* variant: an existing geotiff is skipped whatever replace is
skip_existing(exists, replace) == exists

\* os.path.exists(geotiff) and not replace
skip(exists, replace) == exists /\ ~replace

\* mc_dist_to_port(..., geotiff=geotiff): the distances from the port
\* written to the geotiff
mc_dist_to_port(dir, geotiff, port) ==
    [dir EXCEPT ![geotiff] = [exists |-> TRUE, from |-> port]]

\* DistanceToPorts.__init__, and what out_dir holds before the call
InitDTP ==
    /\ \E tbl \in PortTables :
          dtp = [pc |-> "init", ports |-> tbl, max_workers |-> 0,
                 replace |-> FALSE, i |-> 1, futures |-> <<>>,
                 checks |-> <<>>, runs |-> <<>>]
    /\ out_dir \in [Geotiffs -> {Absent, Old}]
    /\ NoTieLineCosts
    /\ twin = NoTwin
    /\ NoFeatures
    /\ NoPathFinder
    /\ NoWindow
    /\ NoLeastCostPaths
    /\ NoClipCosts

\* distance_to_ports(out_dir, max_workers, replace) up to the branch
distance_to_ports(max_workers, replace) ==
    /\ dtp.pc = "init"
    /\ dtp' = [dtp EXCEPT !.max_workers = max_workers, !.replace = replace,
                          !.pc = IF max_workers > 1 THEN "pool" ELSE "serial"]
    /\ UNCHANGED out_dir
    /\ UNCHANGED <<tlcVars, twin, tccVars, pfVars, winVars, lcpVars, clipVars>>

\* one round of the loop of the parallel branch: the port is skipped or its
\* computation submitted
submit_port ==
    /\ dtp.pc = "pool"
    /\ dtp.i <= Len(dtp.ports)
    /\ LET geotiff == geotiff_path(dtp.ports[dtp.i])
           exists == out_dir[geotiff].exists
       IN  dtp' = [dtp EXCEPT
                      !.checks = Append(@, exists),
                      !.futures = IF skip(exists, dtp.replace) THEN @
                                  ELSE Append(@, [port |-> dtp.i,
                                                  geotiff |-> geotiff,
                                                  state |-> "pending"]),
                      !.i = @ + 1]
    /\ UNCHANGED out_dir
    /\ UNCHANGED <<tlcVars, twin, tccVars, pfVars, winVars, lcpVars, clipVars>>

\* a free worker takes the oldest future of the queue
port_task_start(f) ==
    /\ dtp.pc = "pool"
    /\ dtp.futures[f].state = "pending"
    /\ \A g \in 1 .. (f - 1) : dtp.futures[g].state # "pending"
    /\ free_worker(dtp.futures, dtp.max_workers)
    /\ dtp' = [dtp EXCEPT !.futures[f].state = "running"]
    /\ UNCHANGED out_dir
    /\ UNCHANGED <<tlcVars, twin, tccVars, pfVars, winVars, lcpVars, clipVars>>

\* the worker's mc_dist_to_port ends: the geotiff is written
port_task_done(f) ==
    /\ dtp.pc = "pool"
    /\ dtp.futures[f].state = "running"
    /\ out_dir' = mc_dist_to_port(out_dir, dtp.futures[f].geotiff,
                                  dtp.futures[f].port)
    /\ dtp' = [dtp EXCEPT
                  !.futures[f].state = "done",
                  !.runs = Append(@, [port |-> dtp.futures[f].port,
                                      geotiff |-> dtp.futures[f].geotiff])]
    /\ UNCHANGED <<tlcVars, twin, tccVars, pfVars, winVars, lcpVars, clipVars>>

\* the loop over as_completed(futures) and the exit of the pool: every
\* future is done
exit_port_pool ==
    /\ dtp.pc = "pool"
    /\ dtp.i > Len(dtp.ports)
    /\ \A f \in 1 .. Len(dtp.futures) : dtp.futures[f].state = "done"
    /\ dtp' = [dtp EXCEPT !.pc = "done"]
    /\ UNCHANGED out_dir
    /\ UNCHANGED <<tlcVars, twin, tccVars, pfVars, winVars, lcpVars, clipVars>>

\* one round of the loop of the serial branch: the port is skipped or its
\* distances computed and written
serial_port ==
    /\ dtp.pc = "serial"
    /\ dtp.i <= Len(dtp.ports)
    /\ LET geotiff == geotiff_path(dtp.ports[dtp.i])
           exists == out_dir[geotiff].exists
       IN  IF skip(exists, dtp.replace)
           THEN /\ dtp' = [dtp EXCEPT !.checks = Append(@, exists),
                                      !.i = @ + 1]
                /\ UNCHANGED out_dir
           ELSE /\ dtp' = [dtp EXCEPT
                              !.checks = Append(@, exists),
                              !.runs = Append(@, [port |-> dtp.i,
                                                  geotiff |-> geotiff]),
                              !.i = @ + 1]
                /\ out_dir' = mc_dist_to_port(out_dir, geotiff, dtp.i)
    /\ UNCHANGED <<tlcVars, twin, tccVars, pfVars, winVars, lcpVars, clipVars>>

\* the serial loop is over
serial_return ==
    /\ dtp.pc = "serial"
    /\ dtp.i > Len(dtp.ports)
    /\ dtp' = [dtp EXCEPT !.pc = "done"]
    /\ UNCHANGED out_dir
    /\ UNCHANGED <<tlcVars, twin, tccVars, pfVars, winVars, lcpVars, clipVars>>

NextDTP ==
    \/ \E max_workers \in 1 .. MaxWorkers, replace \in BOOLEAN :
          distance_to_ports(max_workers, replace)
    \/ submit_port
    \/ \E f \in 1 .. Len(dtp.futures) : port_task_start(f)
    \/ \E f \in 1 .. Len(dtp.futures) : port_task_done(f)
    \/ exit_port_pool
    \/ serial_port
    \/ serial_return

SpecDTP == InitDTP /\ [][NextDTP]_vars

(***************************************************************************)
(* Properties of the batch of one supply curve point (TransCapCosts)       *)
(***************************************************************************)
\* the end index of the i-th feature, window coordinates
EndOf(i) == <<features[i].row, features[i].col>>

\* the route metrics of the i-th feature on the object's solver
RouteOf(i) == least_cost_path_result(mcp, cost, WindowShape, EndOf(i))

LowVoltLine(i) ==
    /\ features[i].category = TRANS_LINE_CAT
    /\ features[i].max_volts < capacity_to_kv(capacity_class_class)

\* C6: in the table compute_tie_line_costs returns, a feature whose route
\* is shorter than min_line_length has raw_line_cost = route cost x
\* (min_line_length / route length) and dist_km = min_line_length, and any
\* other feature has the route's cost and length (lines below the tie-line
\* voltage, whose cost is the fixed 1e12, and routes of length 0 set aside)
C6_ClampScalesCostAndLength ==
    tie_line_costs.status = "returned" =>
        \A i \in 1 .. Len(features) :
            \A r \in {RouteOf(i)} :
                (~LowVoltLine(i) /\ FLess(R(0), r.length)) =>
                    LET mll == tie_line_costs.min_line_length
                        rec == tie_line_costs.table[i]
                    IN  IF FLess(r.length, mll)
                        THEN /\ rec.raw_line_cost
                                    = FMul(r.cost, FDiv(mll, r.length))
                             /\ rec.dist_km = mll
                        ELSE /\ rec.raw_line_cost = r.cost
                             /\ rec.dist_km = r.length

\* what the code records instead: the length is raised to min_line_length,
\* the cost is the route's cost, not scaled
C6_CodeRecordsUnscaledCost ==
    tie_line_costs.status = "returned" =>
        \A i \in 1 .. Len(features) :
            \A r \in {RouteOf(i)} :
                LET mll == tie_line_costs.min_line_length
                    rec == tie_line_costs.table[i]
                IN  /\ rec.dist_km = IF FLess(r.length, mll) THEN mll ELSE r.length
                    /\ rec.raw_line_cost
                           = IF LowVoltLine(i) THEN LowVoltLineCost ELSE r.cost

\* a table was returned with a feature whose route is shorter than
\* min_line_length and one whose route is not
C6_Witness ==
    /\ tie_line_costs.status = "returned"
    /\ \E i, j \in 1 .. Len(features) :
          /\ ~LowVoltLine(i)
          /\ FLess(R(0), RouteOf(i).length)
          /\ FLess(RouteOf(i).length, tie_line_costs.min_line_length)
          /\ ~FLess(RouteOf(j).length, tie_line_costs.min_line_length)

InWindow(i) == EndOf(i) \in CellsOf(WindowShape)

Unreachable(i) == InWindow(i) /\ NoPath(mcp, EndOf(i))

\* the positions of the features that can be reached, in table order
RECURSIVE ReachableFrom(_)
ReachableFrom(i) ==
    IF i > Len(features) THEN <<>>
    ELSE (IF Unreachable(i) THEN <<>> ELSE <<i>>) \o ReachableFrom(i + 1)

\* C7: when a feature inside the window cannot be reached and the batch
\* holds other features that can, compute_tie_line_costs still returns, and
\* what it records for the other features is what it records when the batch
\* holds only those
C7_UnreachableFeatureLeavesOthers ==
    (/\ tie_line_costs.status # "none"
     /\ mcp.built
     /\ \A i \in 1 .. Len(features) : InWindow(i)
     /\ \E i \in 1 .. Len(features) : Unreachable(i)
     /\ \E i \in 1 .. Len(features) : ~Unreachable(i))
        => \A keep \in {ReachableFrom(1)} :
             \A alone \in {tie_line_costs_result(
                               [k \in 1 .. Len(keep) |-> features[keep[k]]],
                               mcp, cost, WindowShape,
                               capacity_to_kv(capacity_class_class),
                               tie_line_costs.min_line_length)} :
                /\ alone.status = "returned"
                /\ tie_line_costs.status = "returned"
                /\ \A k \in 1 .. Len(keep) :
                      /\ tie_line_costs.table[keep[k]].raw_line_cost
                             = alone.table[k].raw_line_cost
                      /\ tie_line_costs.table[keep[k]].dist_km
                             = alone.table[k].dist_km

\* what the code does instead: the error of the first feature that fails
\* ends the call and no table is returned
C7_CodeAbortsBatch ==
    (/\ tie_line_costs.status # "none"
     /\ mcp.built
     /\ \E i \in 1 .. Len(features) :
           /\ Unreachable(i)
           /\ \A j \in 1 .. i : InWindow(j))
        => /\ tie_line_costs.status = "raised"
           /\ tie_line_costs.error = "TransFeatureNotFoundError"
           /\ tie_line_costs.table = <<>>

\* a batch of a reachable feature followed by an unreachable one has run
C7_Witness ==
    /\ tie_line_costs.status = "raised"
    /\ mcp.built
    /\ Len(features) >= 2
    /\ InWindow(1) /\ ~Unreachable(1)
    /\ Unreachable(2)

(***************************************************************************)
(* Properties of PathFinder.costs                                          *)
(***************************************************************************)
\* C8: the list read from PathFinder.costs has one row for every requested
\* feature, and every feature whose route cannot be found has a row of its
\* own that marks an error (a row that carries the feature's id, or the
\* 'Error' row of the code, which carries none): as many error rows as
\* blocked features, and no row of a feature with a route marks an error
C8_BlockedFeaturesHaveSentinelRows ==
    (pf.made /\ pf.mcp.built /\ pf_costs.kind = "ok") =>
        /\ Len(pf_costs.rows) = Len(pf.near_trans)
        /\ Len(SelectSeq(pf_costs.rows, LAMBDA r : r.name = "Error"))
               = Len(SelectSeq(pf.near_trans, LAMBDA f : Blocked(pf, f)))
        /\ \A i \in 1 .. Len(pf.near_trans) :
              ~Blocked(pf, pf.near_trans[i]) =>
                  \E k \in 1 .. Len(pf_costs.rows) :
                      /\ pf_costs.rows[k].trans_id = pf.near_trans[i].id
                      /\ pf_costs.rows[k].name # "Error"

\* what the code returns instead: the rows of the features that have a
\* route, in order of distance, and one row naming no feature when none has
C8_CodeOmitsBlockedFeatures ==
    (pf.made /\ pf.mcp.built /\ pf_costs.kind = "ok") =>
        LET open == SelectSeq(pf.near_trans, LAMBDA f : ~Blocked(pf, f))
        IN  IF Len(open) = 0
            THEN pf_costs.rows = <<ErrorCost>>
            ELSE /\ Len(pf_costs.rows) = Len(open)
                 /\ \A k \in 1 .. Len(open) :
                       pf_costs.rows[k].trans_id = open[k].id

\* costs was read on an object with a blocked feature and one that has a
\* route
C8_Witness ==
    /\ pf.made /\ pf.mcp.built /\ pf_costs.kind = "ok"
    /\ \E i, j \in 1 .. Len(pf.near_trans) :
          /\ Blocked(pf, pf.near_trans[i])
          /\ ~Blocked(pf, pf.near_trans[j])

(***************************************************************************)
(* Properties of compute_connection_costs                                  *)
(***************************************************************************)
\* C9: every row of the table compute_connection_costs returns has
\* length_mult 1.5 when its dist_km is below the short cutoff, 1.2 when it
\* is not and is at most the medium cutoff, and 1.0 otherwise, and
\* tie_line_cost = raw_line_cost x length_mult
C9_ShortOverridesMedium ==
    connection_costs.status = "returned" =>
        \A i \in 1 .. Len(connection_costs.table) :
            LET rec == connection_costs.table[i]
            IN  /\ rec.length_mult =
                      IF FLess(rec.dist_km, ShortCutoffKm) THEN Frac(3, 2)
                      ELSE IF FLeq(rec.dist_km, MediumCutoffKm) THEN Frac(6, 5)
                      ELSE R(1)
                /\ rec.tie_line_cost = FMul(rec.raw_line_cost, rec.length_mult)

\* what the code gives instead: 1.2 on every row up to the medium cutoff,
\* the short ones included, and 1.0 above it
C9_CodeMediumOverridesShort ==
    connection_costs.status = "returned" =>
        \A i \in 1 .. Len(connection_costs.table) :
            LET rec == connection_costs.table[i]
            IN  /\ rec.length_mult =
                      IF FLeq(rec.dist_km, MediumCutoffKm) THEN Frac(6, 5)
                      ELSE R(1)
                /\ rec.tie_line_cost = FMul(rec.raw_line_cost, rec.length_mult)

\* a table was returned with a row below the short cutoff
C9_Witness ==
    /\ connection_costs.status = "returned"
    /\ \E i \in 1 .. Len(connection_costs.table) :
          FLess(connection_costs.table[i].dist_km, ShortCutoffKm)

TieVoltage == capacity_to_kv(capacity_class_class)

\* the $/MW looked up for the feature's voltage times the capacity in MW
XformerLookup(feat) ==
    FMul(xformer_cost(feat.min_volts, TieVoltage), R(capacity_class_class))

\* C10 as stated: the transformer cost of a feature is the looked-up $/MW
\* times the capacity, and it is zero exactly when the feature's voltage
\* exceeds the tie-line voltage or its region is the exempt one
C10_ZeroWhenFeatureExceedsTieVoltage ==
    connection_costs.status = "returned" =>
        \A i \in 1 .. Len(features) :
            connection_costs.table[i].xformer_cost =
                IF features[i].min_volts > TieVoltage \/ features[i].region = TEPPC
                THEN R(0)
                ELSE XformerLookup(features[i])

\* C10 amended: the transformer cost of a feature is the looked-up $/MW
\* times the capacity when the feature's voltage exceeds the tie-line
\* voltage and its region is not the exempt one, and zero otherwise
C10_ZeroUnlessFeatureExceedsTieVoltage ==
    connection_costs.status = "returned" =>
        \A i \in 1 .. Len(features) :
            connection_costs.table[i].xformer_cost =
                IF features[i].min_volts > TieVoltage /\ features[i].region # TEPPC
                THEN XformerLookup(features[i])
                ELSE R(0)

\* a table was returned with a feature above the tie-line voltage outside
\* the exempt region, one inside it, and a feature not above the tie-line
\* voltage
C10_Witness ==
    /\ connection_costs.status = "returned"
    /\ \E i \in 1 .. Len(features) :
          /\ features[i].min_volts > TieVoltage
          /\ features[i].region # TEPPC
          /\ ~IsZero(connection_costs.table[i].xformer_cost)
    /\ \E i \in 1 .. Len(features) : features[i].min_volts <= TieVoltage

C10_WitnessExempt ==
    /\ connection_costs.status = "returned"
    /\ \E i \in 1 .. Len(features) :
          features[i].min_volts > TieVoltage /\ features[i].region = TEPPC

(***************************************************************************)
(* Properties of TransCapCosts.compute                                     *)
(***************************************************************************)
\* C11: in every row of the table compute returns, sink rows included,
\* trans_cap_cost = tie_line_cost + xformer_cost + sub_upgrade_cost
\* + new_sub_cost of that row
C11_TotalIsSumOfComponents ==
    trans_cap_costs.status = "returned" =>
        \A i \in 1 .. Len(trans_cap_costs.table) :
            LET rec == trans_cap_costs.table[i]
            IN  rec.trans_cap_cost
                    = FAdd(FAdd(FAdd(rec.tie_line_cost, rec.xformer_cost),
                                rec.sub_upgrade_cost),
                           rec.new_sub_cost)

\* compute returned a table with a sink row, which carries the fixed new
\* substation cost, and a row whose four components are not all zero
C11_Witness ==
    /\ trans_cap_costs.status = "returned"
    /\ \E i, j \in 1 .. Len(trans_cap_costs.table) :
          /\ trans_cap_costs.table[i].category = SINK_CAT
          /\ trans_cap_costs.table[i].new_sub_cost = SinkSubCost
          /\ ~IsZero(trans_cap_costs.table[i].tie_line_cost)
          /\ trans_cap_costs.table[j].category = SUBSTATION_CAT
          /\ ~IsZero(trans_cap_costs.table[j].xformer_cost)
          /\ ~IsZero(trans_cap_costs.table[j].sub_upgrade_cost)
          /\ ~IsZero(trans_cap_costs.table[j].tie_line_cost)
(***************************************************************************)
(* Properties of the clip windows                                          *)
(***************************************************************************)
\* the features compute_tie_line_costs handed to least_cost_path in its
\* latest call: all of them, or those up to the one that raised
Handed ==
    IF tie_line_costs.status = "raised"
    THEN 1 .. tie_line_costs.at ELSE 1 .. Len(features)

\* C12: the window of a TransCapCosts object contains the cell of its
\* supply curve point and the cell of every feature that
\* compute_tie_line_costs hands to least_cost_path
C12_WindowContainsSourceAndDestinations ==
    tie_line_costs.status # "none" =>
        /\ LocalSource \in CellsOf(WindowShape)
        /\ \A i \in Handed : InWindow(i)

\* what the code does instead: a feature outside the window is handed to
\* least_cost_path, which raises ValueError before the solver is asked
C12_CodeRejectsOutsideDestination ==
    tie_line_costs.status # "none" =>
        /\ (\A i \in 1 .. Len(features) : InWindow(i))
              => tie_line_costs.status = "returned"
                    \/ tie_line_costs.error = "TransFeatureNotFoundError"
        /\ (\E i \in Handed : ~InWindow(i))
              => /\ tie_line_costs.status = "raised"
                 /\ tie_line_costs.error = "ValueError"
                 /\ ~InWindow(tie_line_costs.at)

\* compute_tie_line_costs ran on an object one of whose features lies
\* inside the grid at the source's row + radius and column + radius
C12_Witness ==
    /\ tie_line_costs.status # "none"
    /\ \E i \in Handed :
          /\ features[i].row + row_slice.start = row_slice.stop
          /\ features[i].col + col_slice.start = col_slice.stop
          /\ row_slice.stop < shape[1]
          /\ col_slice.stop < shape[2]
\* the rows (or columns) of a slice
SliceCells(sl) == sl.start .. (sl.stop - 1)

\* the rows (or columns) of a grid of n rows within radius of x
WithinRadius(n, x, radius) == {y \in 0 .. (n - 1) : Abs(y - x) <= radius}

\* the cells a window builder was called for: source and features
WinPoints == <<win.src>> \o win.cands

\* the builders that take the box of their cells do contain the cells
WindowsOfBoxesContainTheirCells ==
    win.policy \in {"bbox", "features"} =>
        \A i \in 1 .. Len(WinPoints) :
            /\ WinPoints[i][1] \in SliceCells(win.row_slice)
            /\ WinPoints[i][2] \in SliceCells(win.col_slice)

\* C13: the window of _get_clipping_slices holds exactly the rows of the
\* grid within radius of the source's row and the columns of the grid
\* within radius of the source's column
C13_FixedRadiusWindowIsSymmetric ==
    win.policy = "radius" =>
        /\ SliceCells(win.row_slice)
               = WithinRadius(win.shape[1], win.src[1], win.radius)
        /\ SliceCells(win.col_slice)
               = WithinRadius(win.shape[2], win.src[2], win.radius)

\* what the code returns instead: the rows from row - radius up to and
\* without row + radius, and the columns likewise
C13_CodeWindowStopsBeforeRadius ==
    win.policy = "radius" =>
        /\ SliceCells(win.row_slice)
               = WithinRadius(win.shape[1], win.src[1], win.radius)
                    \ {win.src[1] + win.radius}
        /\ SliceCells(win.col_slice)
               = WithinRadius(win.shape[2], win.src[2], win.radius)
                    \ {win.src[2] + win.radius}

\* _get_clipping_slices was called with a radius that reaches the upper
\* edge of the grid but not the lower one
C13_Witness ==
    /\ win.policy = "radius"
    /\ win.radius > 0
    /\ win.src[1] - win.radius < 0
    /\ win.src[1] + win.radius < win.shape[1]
    /\ win.src[2] + win.radius < win.shape[2]

\* C14: a window builder returns no window of zero area, and
\* _get_clipping_slices raises when the radius is 0
C14_NoDegenerateWindow ==
    win.policy # "none" =>
        /\ win.status = "returned" =>
              /\ win.row_slice.stop > win.row_slice.start
              /\ win.col_slice.stop > win.col_slice.start
        /\ (win.policy = "radius" /\ win.radius = 0) => win.status = "raised"

\* what the code does instead: every call returns, and the window of
\* radius 0 is empty
C14_CodeReturnsEmptyWindow ==
    win.policy # "none" =>
        /\ win.status = "returned"
        /\ (win.policy = "radius" /\ win.radius = 0)
              <=> (SliceCells(win.row_slice) = {}
                      \/ SliceCells(win.col_slice) = {})

\* _get_clipping_slices was called with radius 0
C14_Witness ==
    win.policy = "radius" /\ win.radius = 0

\* int((max - min) * CLIP_RASTER_BUFFER) of the rows and of the columns
\* the box builder was called for
BoxRows == [i \in 1 .. Len(WinPoints) |-> WinPoints[i][1]]
BoxCols == [i \in 1 .. Len(WinPoints) |-> WinPoints[i][2]]
BoxHeightBuffer == clip_buffer(SeqMin(BoxRows, 1), SeqMax(BoxRows, 1))
BoxWidthBuffer == clip_buffer(SeqMin(BoxCols, 1), SeqMax(BoxCols, 1))

\* C15: the window of _clip_cost_raster is the box of the source and the
\* features, its rows moved out by int(height x buffer) on both sides and
\* its columns by int(width x buffer) on both sides, cut to the grid
C15_BoxIsBufferedByItsOwnExtent ==
    win.policy = "bbox" =>
        /\ SliceCells(win.row_slice)
               = {y \in 0 .. (win.shape[1] - 1) :
                     /\ SeqMin(BoxRows, 1) - BoxHeightBuffer <= y
                     /\ y <= SeqMax(BoxRows, 1) + BoxHeightBuffer}
        /\ SliceCells(win.col_slice)
               = {y \in 0 .. (win.shape[2] - 1) :
                     /\ SeqMin(BoxCols, 1) - BoxWidthBuffer <= y
                     /\ y <= SeqMax(BoxCols, 1) + BoxWidthBuffer}

\* what the code returns instead: the last column is moved out by the
\* buffer of the height
C15_CodeBuffersLastColumnByHeight ==
    win.policy = "bbox" =>
        /\ SliceCells(win.row_slice)
               = {y \in 0 .. (win.shape[1] - 1) :
                     /\ SeqMin(BoxRows, 1) - BoxHeightBuffer <= y
                     /\ y <= SeqMax(BoxRows, 1) + BoxHeightBuffer}
        /\ SliceCells(win.col_slice)
               = {y \in 0 .. (win.shape[2] - 1) :
                     /\ SeqMin(BoxCols, 1) - BoxWidthBuffer <= y
                     /\ y <= SeqMax(BoxCols, 1) + BoxHeightBuffer}

\* _clip_cost_raster was called for a box inside the grid that is wider
\* than high, with a buffer of at least one cell on its width
C15_Witness ==
    /\ win.policy = "bbox"
    /\ BoxWidthBuffer > BoxHeightBuffer
    /\ SeqMax(BoxCols, 1) + BoxWidthBuffer < win.shape[2]
    /\ SeqMin(BoxCols, 1) - BoxWidthBuffer >= 0
(***************************************************************************)
(* Properties of LeastCostPaths                                            *)
(***************************************************************************)
\* the tasks that have run or are running on the pool
TasksBegun ==
    {f \in 1 .. Len(pool.futures) : pool.futures[f].state # "queued"}

C16_CodeChecksBarrierLayerOnly ==
    lcp.status # "none" =>
        /\ ~lcp.file.transmission_barrier =>
              lcp.status # "made" /\ pool.futures = <<>>
                 /\ serial_ret = NoCall /\ parallel_ret = NoCall
        /\ (lcp.file.transmission_barrier /\ ~GoodFile(lcp.file)) =>
              /\ lcp.status \in {"new", "made"}
              /\ (serial_ret.status # "none" /\ Len(lcp.features) > 0) =>
                    /\ serial_ret.status = "raised"
                    /\ serial_ret.executed = 1
                    /\ serial_ret.error \in {"missing layer",
                                              "unknown capacity class"}
              /\ \A f \in 1 .. Len(pool.futures) :
                    pool.futures[f].state = "done" =>
                        pool.futures[f].result.kind = "raised"

InsidePoints == {i \in 1 .. Len(lcp.points) : lcp.points[i] \in GridCells}

\* C17: the features of a LeastCostPaths object are the input features
\* that map into the grid, all of them and in their order, each with the
\* row and col it maps to; a task is submitted for these features only
C17_FeaturesOutsideAreDropped ==
    /\ lcp.status \in {"new", "raised"} =>
          lcp.features = <<>> /\ pool.futures = <<>> /\ serial_ret = NoCall
    /\ lcp.status = "made" =>
          /\ Len(lcp.features) = Cardinality(InsidePoints)
          /\ \A k \in 1 .. Len(lcp.features) :
                /\ lcp.features[k].gid \in InsidePoints
                /\ <<lcp.features[k].row, lcp.features[k].col>>
                       = lcp.points[lcp.features[k].gid]
                /\ lcp.features[k].row >= 0
                /\ lcp.features[k].row < lcp.shape[1]
                /\ lcp.features[k].col >= 0
                /\ lcp.features[k].col < lcp.shape[2]
                /\ \A l \in 1 .. (k - 1) :
                      lcp.features[l].gid < lcp.features[k].gid
          /\ \A f \in 1 .. Len(pool.futures) :
                pool.futures[f].start < Len(lcp.features)

\* an object was built on features of which one lies below the grid, one
\* left of it and one on it, and a task was submitted
C17_Witness ==
    /\ lcp.status = "made"
    /\ \E i, j \in 1 .. Len(lcp.points) :
          /\ lcp.points[i][1] >= lcp.shape[1]
          /\ lcp.points[j][2] < 0
    /\ Len(lcp.features) = 1
    /\ Len(pool.futures) = 1

BagOfRows(table) ==
    [x \in {table[k] : k \in 1 .. Len(table)} |->
        Cardinality({k \in 1 .. Len(table) : table[k] = x})]

TasksThatSucceed ==
    {t \in 0 .. (Len(lcp.features) - 1) :
        task_result(lcp.file, lcp.features, lcp.fails, t).kind = "ok"}

TasksThatFail == (0 .. (Len(lcp.features) - 1)) \ TasksThatSucceed

\* a call that ended has returned the tables of all tasks that succeed
ReturnsTheOtherTasks(call) ==
    call.status # "none" =>
        /\ call.status = "returned"
        /\ \A t \in TasksThatSucceed :
              \E k \in 1 .. Len(call.tables) : call.tables[k].task = t

C20_CodeAbortsTheCall ==
    (lcp.status = "made" /\ GoodFile(lcp.file) /\ TasksThatFail # {}) =>
        /\ serial_ret.status # "none" =>
              /\ serial_ret.status = "raised"
              /\ serial_ret.error = "TransFeatureNotFoundError"
              /\ serial_ret.table = <<>>
        /\ parallel_ret.status # "none" =>
              /\ parallel_ret.status = "raised"
              /\ parallel_ret.error = "TransFeatureNotFoundError"
              /\ parallel_ret.table = <<>>

Submitted(f) == f \in DOMAIN pool.futures /\ ~Hangs(f)

\* the table of future f was collected by the main process
Collected(f) ==
    /\ f \in DOMAIN pool.futures
    /\ f \in pool.yielded
    /\ \E k \in 1 .. Len(least_cost_paths) :
          least_cost_paths[k].task = pool.futures[f].start

\* a task that never ends was submitted
SomeTaskHangs == \E f \in DOMAIN pool.futures : Hangs(f)

C22_SolverRunsOnceFromLocalSource ==
    [][/\ n_find_costs' <= 1
       /\ (mcp'.built <=> n_find_costs' = 1)
       /\ mcp.built => (mcp' = mcp /\ n_find_costs' = n_find_costs)
       /\ (~mcp.built /\ mcp'.built) =>
             \E tie \in TieBreaks :
                 mcp' = find_costs(mcp_cost, WindowShape, LocalSource, tie)
       /\ ret'.kind = "ok" =>
             /\ mcp'.built
             /\ ret'.indices = traceback(mcp', ret'.end_idx)]_vars

\* find_costs has run once on a window that does not begin at the grid's
\* origin, and a route of two cells or more was traced back to an end
\* other than the source
C22_Witness ==
    /\ n_find_costs = 1
    /\ mcp.built
    /\ row_slice.start > 0
    /\ col_slice.start > 0
    /\ ret.kind = "ok"
    /\ Len(ret.indices) >= 2
OnDiagonal == Abs(ret.end_idx[1] - LocalSource[1])
                 = Abs(ret.end_idx[2] - LocalSource[2])

\* the number of hops of the straight route between them
DiagonalHops == Abs(ret.end_idx[1] - LocalSource[1])

\* the cells of the straight diagonal from the source to the end
StraightDiagonal ==
    LET dr == IF ret.end_idx[1] >= LocalSource[1] THEN 1 ELSE -1
        dc == IF ret.end_idx[2] >= LocalSource[2] THEN 1 ELSE -1
    IN  [i \in 1 .. (DiagonalHops + 1) |->
            <<LocalSource[1] + dr * (i - 1), LocalSource[2] + dc * (i - 1)>>]

\* the raw cost of every cell of the window
UniformCost == cost[LocalSource]

\* C24: on a window of constant raw cost c, the route to an end on a
\* diagonal of the source is the straight diagonal, and the cost returned
\* is c times the length in km returned
C24_UniformCostIsCostTimesLength ==
    (ret.kind = "ok" /\ OnDiagonal) =>
        /\ ret.indices = StraightDiagonal
        /\ ret.cost = FMul(UniformCost, ret.length)

\* what the code returns where the search cost is positive: the straight
\* diagonal, its length in km, and as cost c times its length in cell
\* widths, which is c times the length in km times 1000 / 90
C24_CodeCostIsPerCellWidth ==
    (ret.kind = "ok" /\ OnDiagonal /\ FLess(R(0), mcp_cost[LocalSource])) =>
        /\ ret.indices = StraightDiagonal
        /\ ret.length = FMul(FMul(R(DiagonalHops), Sqrt2),
                             Frac(CellSize, MetresPerKm))
        /\ ret.cost = FMul(UniformCost, FMul(R(DiagonalHops), Sqrt2))
        /\ ret.cost = FMul(FMul(UniformCost, ret.length),
                           Frac(MetresPerKm, CellSize))

\* a route of two diagonal hops or more was returned on a window of
\* positive search cost
C24_Witness ==
    /\ ret.kind = "ok"
    /\ OnDiagonal
    /\ DiagonalHops >= 2
    /\ FLess(R(0), mcp_cost[LocalSource])
    /\ ret.indices = StraightDiagonal
\* the scenario: raw cost 1 and barrier 0 in every cell, the source at
\* (0, 0), the substation at the opposite corner
ZeroBarrierScenario ==
    /\ UniformCost = R(1)
    /\ \A p \in CellsOf(WindowShape) : IsZero(mcp_cost[p])
    /\ start_idx = <<0, 0>>
    /\ EndOf(1) = <<UniformDim - 1, UniformDim - 1>>

\* the length of the straight route between the corners, km
CornerToCornerKm ==
    FMul(FMul(R(UniformDim - 1), Sqrt2), Frac(CellSize, MetresPerKm))

\* C25: in the scenario the route returned is the diagonal of 4 hops, its
\* length 4 x sqrt(2) x 90 / 1000 km, and compute_tie_line_costs with
\* min_line_length 5.7 gives the length 5.7 and the route's cost times
\* 5.7 over that length
C25_ZeroBarrierScenario ==
    ZeroBarrierScenario =>
        /\ ret.kind # "none" =>
              /\ ret.kind = "ok"
              /\ Len(ret.indices) = UniformDim
              /\ \A i \in 1 .. Len(ret.indices) : ret.indices[i] = <<i - 1, i - 1>>
              /\ ret.length = CornerToCornerKm
        /\ (tie_line_costs.status # "none"
              /\ tie_line_costs.min_line_length = Frac(57, 10)) =>
              /\ tie_line_costs.status = "returned"
              /\ tie_line_costs.table[1].dist_km = Frac(57, 10)
              /\ tie_line_costs.table[1].raw_line_cost =
                    FMul(RouteOf(1).cost,
                         FDiv(Frac(57, 10), CornerToCornerKm))

\* what the code does in the scenario: the route and the length are as
\* claimed under either heap order of the model, the length recorded is
\* 5.7, and the cost recorded is the cost of the route, not scaled
C25_CodeRecordsUnscaledCost ==
    ZeroBarrierScenario =>
        /\ ret.kind # "none" =>
              /\ ret.kind = "ok"
              /\ \A i \in 1 .. Len(ret.indices) : ret.indices[i] = <<i - 1, i - 1>>
              /\ ret.length = CornerToCornerKm
              /\ ret.cost = FMul(R(UniformDim - 1), Sqrt2)
        /\ (tie_line_costs.status # "none"
              /\ tie_line_costs.min_line_length = Frac(57, 10)) =>
              /\ tie_line_costs.status = "returned"
              /\ tie_line_costs.table[1].dist_km = Frac(57, 10)
              /\ tie_line_costs.table[1].raw_line_cost
                    = FMul(R(UniformDim - 1), Sqrt2)

\* compute_tie_line_costs(5.7) has returned in the scenario
C25_Witness ==
    /\ ZeroBarrierScenario
    /\ tie_line_costs.status = "returned"
    /\ tie_line_costs.min_line_length = Frac(57, 10)
    /\ ret.kind = "ok"
\* the substation lies in the cell of the supply curve point
SameCell == Len(features) = 1 /\ EndOf(1) = LocalSource

\* the locals length and cost of compute_tie_line_costs after the clamp,
\* for the feature in the source cell
ClampedSameCell ==
    clamp(RouteOf(1).length, RouteOf(1).cost, tie_line_costs.min_line_length)

\* C30: for a feature in the cell of the source, least_cost_path returns
\* length 0 and cost 0, and compute_tie_line_costs records the length
\* min_line_length and ends with a finite cost, without dividing by the
\* zero length
C30_SameCellIsClampedWithoutDividingByZero ==
    SameCell =>
        /\ ret.kind # "none" =>
              ret.kind = "ok" /\ IsZero(ret.length) /\ IsZero(ret.cost)
        /\ tie_line_costs.status # "none" =>
              /\ tie_line_costs.status = "returned"
              /\ tie_line_costs.table[1].dist_km
                    = tie_line_costs.min_line_length
              /\ IsFinite(tie_line_costs.table[1].raw_line_cost)
              /\ IsFinite(ClampedSameCell.cost)

\* what the code does: the route has length 0 and cost 0, the clamp
\* divides min_line_length by the length 0, which is inf in float64, and
\* multiplies the cost 0 by it, which is nan; the cost recorded is the 0
\* of the first call and the length recorded is min_line_length
C30_CodeDividesByZeroLength ==
    SameCell =>
        /\ ret.kind # "none" =>
              ret.kind = "ok" /\ IsZero(ret.length) /\ IsZero(ret.cost)
        /\ tie_line_costs.status # "none" =>
              /\ tie_line_costs.status = "returned"
              /\ tie_line_costs.table[1].dist_km
                    = tie_line_costs.min_line_length
              /\ IsZero(tie_line_costs.table[1].raw_line_cost)
              /\ IsInf(FDiv(tie_line_costs.min_line_length,
                            RouteOf(1).length))
              /\ IsNaN(ClampedSameCell.cost)

\* compute_tie_line_costs has returned for a substation in the cell of
\* the source, after least_cost_path gave the route of one cell
C30_Witness ==
    /\ SameCell
    /\ ret.kind = "ok"
    /\ Len(ret.indices) = 1
    /\ tie_line_costs.status = "returned"
    /\ tie_line_costs.table[1].dist_km = tie_line_costs.min_line_length
(***************************************************************************)
(* Properties of the search cost                                           *)
(***************************************************************************)
\* by how much the search cost of the barrier cell exceeds that of the
\* open cell in what a call returned
Excess(call) ==
    FAdd(call.mcp_cost[BarrierCell], FMul(R(-1), call.mcp_cost[OpenCell]))

\* the two cells have the same raw cost
EqualRawCost ==
    clip.status # "none" /\ clip.cost_lyr[BarrierCell] = clip.cost_lyr[OpenCell]

\* the claim for two calls, the first with the smaller barrier_mult
BarrierIsMonotone(a, b) ==
    /\ ~FLess(a.mcp_cost[BarrierCell], a.mcp_cost[OpenCell])
    /\ FLeq(Excess(a), Excess(b))

WindowLocal(i) ==
    <<features[i].geometry[1] - row_slice.start,
      features[i].geometry[2] - col_slice.start>>

\* C27: after _prep_features the row and col of every feature, the
\* transmission lines whose connection point was recomputed included, are
\* the feature's cell counted from the window's origin, and lie inside the
\* clipped raster
C27_PreppedFeaturesAreWindowLocal ==
    \A i \in 1 .. Len(features) :
        /\ EndOf(i) = WindowLocal(i)
        /\ InWindow(i)

\* what the code does instead: a transmission line keeps the row and col
\* its connection point has on the whole grid, every other feature is
\* shifted but may lie outside the clipped raster, and a feature outside it
\* makes least_cost_path raise ValueError
C27_CodeLeavesLinesOnTheWholeGrid ==
    /\ \A i \in 1 .. Len(features) :
          IF features[i].category = TRANS_LINE_CAT
          THEN EndOf(i) = features[i].geometry
          ELSE EndOf(i) = WindowLocal(i)
    /\ (tie_line_costs.status # "none" /\ \E i \in Handed : ~InWindow(i))
          => /\ tie_line_costs.status = "raised"
             /\ tie_line_costs.error = "ValueError"

\* compute_tie_line_costs returned on an object whose window starts after
\* the grid's first row and one of whose transmission lines has its
\* connection point inside the window
C27_Witness ==
    /\ tie_line_costs.status = "returned"
    /\ row_slice.start > 0
    /\ col_slice.start > 0
    /\ \E i \in 1 .. Len(features) :
          /\ features[i].category = TRANS_LINE_CAT
          /\ WindowLocal(i) \in CellsOf(WindowShape)
          /\ EndOf(i) # WindowLocal(i)

(***************************************************************************)
(* Properties of distance_to_ports                                         *)
(***************************************************************************)
\* the ports the loop has looked at
Examined == 1 .. Len(dtp.checks)

\* the port's geotiff existed when the loop looked at it, and replace is
\* False
ExistedUnreplaced(i) == dtp.checks[i] /\ ~dtp.replace

\* the computations submitted for port i, and those that ran to their end
FuturesOf(i) == {f \in 1 .. Len(dtp.futures) : dtp.futures[f].port = i}

RunsOf(i) == {k \in 1 .. Len(dtp.runs) : dtp.runs[k].port = i}

UnreachableFeats == costs_loop(pf, 1).blocked

\* how often a feature is in _blocked_feats
TimesBlocked(feat) ==
    Cardinality({k \in 1 .. Len(pf.blocked_feats) : pf.blocked_feats[k] = feat})

\* C29: reading PathFinder.costs after run() leaves the object as the
\* first read left it: _blocked_feats holds each unreachable destination
\* exactly once however often costs was read, and every read returns the
\* same rows
C29_ReadingCostsIsIdempotent ==
    /\ []((pf.mcp.built /\ pf_costs.kind = "ok") =>
             \A k \in 1 .. Len(UnreachableFeats) :
                 TimesBlocked(UnreachableFeats[k]) = 1)
    /\ [][(pf_costs.kind = "ok" /\ pf_costs'.kind = "ok")
             => pf_costs'.rows = pf_costs.rows]_vars

\* what the code does instead: every read appends the unreachable
\* destinations to _blocked_feats once more; the rows returned are the same
C29_CodeAppendsOnEveryRead ==
    /\ [][pf.mcp.built =>
             /\ pf'.blocked_feats = pf.blocked_feats \o UnreachableFeats
             /\ pf_costs.kind = "ok" => pf_costs'.rows = pf_costs.rows]_vars
    /\ [](pf.mcp.built =>
             \A j, k \in 1 .. Len(UnreachableFeats) :
                 TimesBlocked(UnreachableFeats[j])
                     = TimesBlocked(UnreachableFeats[k]))

\* costs was read twice after run() on an object one of whose destinations
\* cannot be reached
C29_Witness ==
    /\ pf.mcp.built
    /\ pf_costs.kind = "ok"
    /\ Len(UnreachableFeats) > 0
    /\ Len(pf.blocked_feats) = 2 * Len(UnreachableFeats)
=============================================================================
